---- MODULE Spec2Model ----
(***************************************************************************)
(* Model of the block-I/O throttling core of block/blk-throttle.c and the  *)
(* configuration entry points of block/blk-cgroup.c.                       *)
(*                                                                         *)
(* The whole kernel-side state is carried in one record K; every C         *)
(* function is an operator from K to K (or to a record holding K and the   *)
(* function's results), written in the order of the C statements.          *)
(* Time is scaled: HZ ticks per second, bio sizes and bps in small units.  *)
(***************************************************************************)
EXTENDS Integers, Sequences, FiniteSets, TLC

VARIABLES kern, nbio, nconf, ndrain

vars == <<kern, nbio, nconf, ndrain>>

-----------------------------------------------------------------------------
(* Program constants                                                       *)

READ == 0

WRITE == 1

RANDW == 2

HZ == 20

throtl_slice == HZ \div 10

throtl_grp_quantum == 8

throtl_quantum == 32

NoLimit == -1

(* stand-in for the result of u64/ulong arithmetic on a limit of -1 *)
Huge == 1000000

(* stand-in for an unsigned long wait left at its initial value -1 *)
WaitInf == 1000000

-----------------------------------------------------------------------------
(* Bounds of the model                                                     *)

MaxBios == 2

MaxJiffies == 4

MaxConf == 2

MaxDrain == 1

Groups == {0, 1}

Queues == {1, 2}

FdIds == {7}

(* a second fake device of the same cgroup, for the runs in which two      *)
(* member throtl_grps wait in one pending_tree                             *)
OrderFdIds == {7, 8}

(* the blkcgs that own a fake device, the queues with per-device limits *)
FdGroups == {1}

DevQueues == {1}

BioSizes == {2, 3}

ConfValues == {0, 20}

Dirs2 == {READ, WRITE}

Dirs3 == {READ, WRITE, RANDW}

DevFiles == {"bps", "iops"} \X Dirs3

-----------------------------------------------------------------------------
(* Identities: throtl_grps, service queues, qnodes and list heads          *)

NULL == <<"null", 0, 0, 0>>

PG(g, q) == <<"pg", g, q, 0>>

FH(g, i) == <<"fh", g, i, 0>>

FM(g, i, q) == <<"fm", g, i, q>>

TD(q) == <<"td", 0, q, 0>>

PGs == {PG(g, q) : g \in Groups, q \in Queues}

FHs == {FH(g, i) : g \in FdGroups, i \in FdIds \cup OrderFdIds}

FMs == {FM(g, i, q) : g \in FdGroups, i \in FdIds \cup OrderFdIds, q \in Queues}

TGs == PGs \cup FHs \cup FMs

TDs == {TD(q) : q \in Queues}

SQs == TGs \cup TDs

NNULL == <<NULL, "null", 0>>

QN(t, kind, rw) == <<t, kind, rw>>

LHead(s, rw) == <<s, "head", rw>>

QNs == {QN(t, k, rw) : t \in TGs, k \in {"self", "parent"}, rw \in Dirs2}

Heads == {LHead(s, rw) : s \in SQs, rw \in Dirs2}

Nodes == QNs \cup Heads

(* blkcg_parent(): group g > 0 is a child of group g - 1; 0 is blkcg_root *)
blkcg_parent(g) == g - 1

-----------------------------------------------------------------------------
(* Small helpers                                                           *)

(* a struct bio that has not been submitted: its st is "new", then "held" *)
(* while blk_throtl_bio() has kept it, "passed" or "issued" afterwards.    *)
(* at is the blktrace timestamp of the bio when tracing is on (K.trace):   *)
(* the jiffy it was submitted while it is held, then the jiffy it went on  *)
(* to the driver; 0 when tracing is off                                    *)
NewBio ==
    [st |-> "new", dir |-> READ, size |-> 0, blkcg |-> 0, q |-> 0,
     throttled |-> FALSE, charged |-> {}, nissued |-> 0, at |-> 0]

(* conversion of an int argument to a C bool parameter *)
ToBool(rw) == IF rw = 0 THEN 0 ELSE 1

roundup(x, y) == ((x + y - 1) \div y) * y

Max(a, b) == IF a >= b THEN a ELSE b

Min(a, b) == IF a <= b THEN a ELSE b

Oops(K, what) == IF K.oops = "none" THEN [K EXCEPT !.oops = what] ELSE K

Alive(K) == K.oops = "none"

-----------------------------------------------------------------------------
(* struct list_head, at pointer level: K.ln[n] = [next, prev]              *)

INIT_LIST_HEAD(K, n) == [K EXCEPT !.ln[n] = [next |-> n, prev |-> n]]

list_empty(K, h) == K.ln[h].next = h

(* *p = v for a list pointer field; a store through NULL is an oops *)
SetNext(K, n, v) ==
    IF ~Alive(K) THEN K
    ELSE IF n = NNULL THEN Oops(K, "null_deref")
    ELSE [K EXCEPT !.ln[n].next = v]

SetPrev(K, n, v) ==
    IF ~Alive(K) THEN K
    ELSE IF n = NNULL THEN Oops(K, "null_deref")
    ELSE [K EXCEPT !.ln[n].prev = v]

list_add(K, new, prev, next) ==
    SetNext(SetPrev(SetNext(SetPrev(K, next, new), new, next), new, prev),
            prev, new)

list_add_tail(K, new, head) ==
    IF ~Alive(K) THEN K ELSE list_add(K, new, K.ln[head].prev, head)

list_del(K, prev, next) == SetNext(SetPrev(K, next, prev), prev, next)

list_del_init(K, entry) ==
    IF ~Alive(K) THEN K
    ELSE INIT_LIST_HEAD(list_del(K, K.ln[entry].prev, K.ln[entry].next), entry)

list_move_tail(K, entry, head) ==
    IF ~Alive(K) THEN K
    ELSE list_add_tail(list_del(K, K.ln[entry].prev, K.ln[entry].next),
                       entry, head)

-----------------------------------------------------------------------------
(* Time slices and the token bucket                                        *)

throtl_start_new_slice_with_credit(K, t, rw, start) ==
    [K EXCEPT !.tg[t].bytes_disp[ToBool(rw)] = 0,
              !.tg[t].io_disp[ToBool(rw)] = 0,
              !.tg[t].slice_start[ToBool(rw)] = IF start >= @ THEN start ELSE @,
              !.tg[t].slice_end[ToBool(rw)] = K.jiffies + throtl_slice]

throtl_start_new_slice(K, t, rw) ==
    [K EXCEPT !.tg[t].bytes_disp[ToBool(rw)] = 0,
              !.tg[t].io_disp[ToBool(rw)] = 0,
              !.tg[t].slice_start[ToBool(rw)] = K.jiffies,
              !.tg[t].slice_end[ToBool(rw)] = K.jiffies + throtl_slice]

throtl_set_slice_end(K, t, rw, jiffy_end) ==
    [K EXCEPT !.tg[t].slice_end[ToBool(rw)] = roundup(jiffy_end, throtl_slice)]

throtl_extend_slice(K, t, rw, jiffy_end) ==
    [K EXCEPT !.tg[t].slice_end[ToBool(rw)] = roundup(jiffy_end, throtl_slice)]

throtl_slice_used(K, t, rw) ==
    ~(K.tg[t].slice_start[ToBool(rw)] <= K.jiffies
      /\ K.jiffies <= K.tg[t].slice_end[ToBool(rw)])

(* the amount of nr_slices whole seconds *)
TrimAmount_PerSecond(limit, nr_slices) ==
    IF limit = NoLimit THEN Huge ELSE limit * nr_slices

(* limit * throtl_slice * nr_slices / HZ in unsigned arithmetic *)
TrimAmount(limit, nr_slices) ==
    IF limit = NoLimit THEN Huge
    ELSE (limit * throtl_slice * nr_slices) \div HZ

(* what the throtl_log() at the end of throtl_trim_slice() would show when *)
(* tracing is on: K.trim_over collects the (throtl_grp, rw) whose bucket,  *)
(* as the function returns, holds more than bps * (slice_end - slice_start)*)
(* / HZ bytes under a finite bps                                           *)
TrimLog(K, t, rw) ==
    IF K.trace /\ K.tg[t].bps[rw] # NoLimit
       /\ K.tg[t].bytes_disp[rw] * HZ
            > K.tg[t].bps[rw] * (K.tg[t].slice_end[rw] - K.tg[t].slice_start[rw])
    THEN [K EXCEPT !.trim_over = @ \cup {<<t, rw>>}]
    ELSE K

throtl_trim_slice(K, t, rw) ==
    IF ~Alive(K) THEN K
    ELSE IF K.tg[t].slice_end[rw] < K.tg[t].slice_start[rw]
         THEN Oops(K, "bug_on")
    ELSE IF throtl_slice_used(K, t, rw) THEN TrimLog(K, t, rw)
    ELSE
      LET Trim(K1, nr_slices, bytes_trim, io_trim) ==
            IF nr_slices = 0 THEN K1
            ELSE IF bytes_trim = 0 /\ io_trim = 0 THEN K1
            ELSE [K1 EXCEPT
                   !.tg[t].bytes_disp[rw] = IF @ >= bytes_trim THEN @ - bytes_trim ELSE 0,
                   !.tg[t].io_disp[rw] = IF @ >= io_trim THEN @ - io_trim ELSE 0,
                   !.tg[t].slice_start[rw] = @ + nr_slices * throtl_slice]
          Slices(nr_slices) ==
            Trim(throtl_set_slice_end(K, t, rw, K.jiffies + throtl_slice),
                 nr_slices,
                 TrimAmount(K.tg[t].bps[rw], nr_slices),
                 TrimAmount(K.tg[t].iops[rw], nr_slices))
      IN  TrimLog(Slices((K.jiffies - K.tg[t].slice_start[rw]) \div throtl_slice),
                  t, rw)

(* the wait computed for one iops limit (0 when within the limit) *)
IopsWait(T, d, now) ==
    LET Wait(jiffy_elapsed, jiffy_elapsed_rnd, jiffy_wait) ==
          IF T.io_disp[d] + 1 <= (T.iops[d] * jiffy_elapsed_rnd) \div HZ THEN 0
          ELSE IF jiffy_wait > jiffy_elapsed THEN jiffy_wait - jiffy_elapsed
          ELSE 1
        Elapsed(jiffy_elapsed) ==
          Wait(jiffy_elapsed,
               roundup(IF jiffy_elapsed = 0 THEN throtl_slice ELSE jiffy_elapsed,
                       throtl_slice),
               ((T.io_disp[d] + 1) * HZ) \div T.iops[d] + 1)
    IN  Elapsed(now - T.slice_start[d])

(* returns the value left in *wait; the C function returns *wait == 0 *)
tg_with_in_iops_limit(T, rw, now) ==
    LET Both(w1, jw) ==
          IF jw = 0 THEN (IF T.iops[rw] = NoLimit THEN 0 ELSE w1)
          ELSE IF T.iops[rw] # NoLimit THEN Max(w1, jw)
          ELSE jw
        Own(w1) ==
          IF T.iops[RANDW] # NoLimit THEN Both(w1, IopsWait(T, RANDW, now)) ELSE w1
    IN  Own(IF T.iops[rw] # NoLimit THEN IopsWait(T, rw, now) ELSE 0)

(* the wait of a bucket that never fills *)
BpsWait_NeverFull(T, d, size, now) == 0

(* the wait of a bucket that holds a whole second of the limit *)
BpsWait_PerSecond(T, d, size, now) ==
    IF T.bytes_disp[d] + size <= T.bps[d] THEN 0 ELSE 1

(* the wait computed for one bps limit (0 when within the limit) *)
BpsWait(T, d, size, now) ==
    LET Wait(jiffy_elapsed, jiffy_elapsed_rnd, bytes_allowed) ==
          IF T.bytes_disp[d] + size <= bytes_allowed THEN 0
          ELSE Max(1, ((T.bytes_disp[d] + size - bytes_allowed) * HZ) \div T.bps[d])
               + (jiffy_elapsed_rnd - jiffy_elapsed)
        Rounded(jiffy_elapsed, jiffy_elapsed_rnd) ==
          Wait(jiffy_elapsed, jiffy_elapsed_rnd,
               (T.bps[d] * jiffy_elapsed_rnd) \div HZ)
        Elapsed(jiffy_elapsed) ==
          Rounded(jiffy_elapsed,
                  roundup(IF jiffy_elapsed = 0 THEN throtl_slice ELSE jiffy_elapsed,
                          throtl_slice))
    IN  Elapsed(now - T.slice_start[d])

tg_with_in_bps_limit(T, rw, size, now) ==
    LET Both(w1, jw) ==
          IF jw = 0 THEN (IF T.bps[rw] = NoLimit THEN 0 ELSE w1)
          ELSE IF T.bps[rw] # NoLimit THEN Max(w1, jw)
          ELSE jw
        Own(w1) ==
          IF T.bps[RANDW] # NoLimit THEN Both(w1, BpsWait(T, RANDW, size, now)) ELSE w1
    IN  Own(IF T.bps[rw] # NoLimit THEN BpsWait(T, rw, size, now) ELSE 0)

(* tg_may_dispatch() without the test for a throtl_grp without limits *)
tg_may_dispatch_NoFastPath(K, t, rw, size) ==
    LET Renew(K0, d) ==
          IF throtl_slice_used(K0, t, d) THEN throtl_start_new_slice(K0, t, d)
          ELSE IF K0.tg[t].slice_end[d] < K0.jiffies + throtl_slice
               THEN throtl_extend_slice(K0, t, d, K0.jiffies + throtl_slice)
               ELSE K0
        Extend(K0, d, max_wait) ==
          IF K0.tg[t].slice_end[d] < K0.jiffies + max_wait
          THEN throtl_extend_slice(K0, t, d, K0.jiffies + max_wait)
          ELSE K0
        Result(K2, max_wait) ==
          IF max_wait = 0
          THEN [K |-> K2, ok |-> TRUE, wait |-> 0]
          ELSE [K |-> Extend(Extend(K2, rw, max_wait), RANDW, max_wait),
                ok |-> FALSE, wait |-> max_wait]
        Iops(K2, bps_wait) ==
          Result(K2, IF bps_wait = 0
                     THEN tg_with_in_iops_limit(K2.tg[t], rw, K2.jiffies)
                     ELSE bps_wait)
        Bps(K2) == Iops(K2, tg_with_in_bps_limit(K2.tg[t], rw, size, K2.jiffies))
    IN
    Bps(Renew(Renew(K, rw), RANDW))

(* result: [K, ok, wait] *)
tg_may_dispatch(K, t, rw, size) ==
    LET Renew(K0, d) ==
          IF throtl_slice_used(K0, t, d) THEN throtl_start_new_slice(K0, t, d)
          ELSE IF K0.tg[t].slice_end[d] < K0.jiffies + throtl_slice
               THEN throtl_extend_slice(K0, t, d, K0.jiffies + throtl_slice)
               ELSE K0
        Extend(K0, d, max_wait) ==
          IF K0.tg[t].slice_end[d] < K0.jiffies + max_wait
          THEN throtl_extend_slice(K0, t, d, K0.jiffies + max_wait)
          ELSE K0
        Result(K2, max_wait) ==
          IF max_wait = 0
          THEN [K |-> K2, ok |-> TRUE, wait |-> 0]
          ELSE [K |-> Extend(Extend(K2, rw, max_wait), RANDW, max_wait),
                ok |-> FALSE, wait |-> max_wait]
        Iops(K2, bps_wait) ==
          Result(K2, IF bps_wait = 0
                     THEN tg_with_in_iops_limit(K2.tg[t], rw, K2.jiffies)
                     ELSE bps_wait)
        Bps(K2) == Iops(K2, tg_with_in_bps_limit(K2.tg[t], rw, size, K2.jiffies))
    IN
    IF K.tg[t].bps[rw] = NoLimit /\ K.tg[t].iops[rw] = NoLimit
       /\ K.tg[t].bps[RANDW] = NoLimit /\ K.tg[t].iops[RANDW] = NoLimit
    THEN [K |-> K, ok |-> TRUE, wait |-> 0]
    ELSE Bps(Renew(Renew(K, rw), RANDW))

throtl_charge_bio(K, t, b) ==
    [K EXCEPT !.tg[t].bytes_disp[K.bio[b].dir] = @ + K.bio[b].size,
              !.tg[t].bytes_disp[RANDW] = @ + K.bio[b].size,
              !.tg[t].io_disp[K.bio[b].dir] = @ + 1,
              !.tg[t].io_disp[RANDW] = @ + 1,
              !.bio[b].throttled = TRUE,
              !.bio[b].charged = @ \cup {t},
              !.recharged = IF t \in K.bio[b].charged THEN @ \cup {b} ELSE @]

-----------------------------------------------------------------------------
(* Qnodes: K.qb[qn] is the bio_list of qnode qn, qn[1] is qn->tg           *)

IsQN(n) == n[2] \in {"self", "parent"}

throtl_qnode_init(K, qn) ==
    [INIT_LIST_HEAD(K, qn) EXCEPT !.qb[qn] = <<>>]

(* blkg_get(tg_to_blkg(tg)): a fake throtl_grp has no blkg behind it *)
blkg_get(K, t) ==
    IF ~Alive(K) THEN K
    ELSE IF K.tg[t].fake THEN Oops(K, "null_deref")
    ELSE [K EXCEPT !.tg[t].ref = @ + 1]

blkg_put(K, t) ==
    IF ~Alive(K) THEN K
    ELSE IF K.tg[t].fake THEN Oops(K, "null_deref")
    ELSE [K EXCEPT !.tg[t].ref = @ - 1]

throtl_qnode_add_bio(K, b, qn, queued) ==
    IF list_empty(K, qn)
    THEN blkg_get(list_add_tail([K EXCEPT !.qb[qn] = Append(@, b)], qn, queued),
                  qn[1])
    ELSE [K EXCEPT !.qb[qn] = Append(@, b)]

throtl_qnode_add_bio_withoutblkg(K, b, qn, queued) ==
    IF list_empty(K, qn)
    THEN list_add_tail([K EXCEPT !.qb[qn] = Append(@, b)], qn, queued)
    ELSE [K EXCEPT !.qb[qn] = Append(@, b)]

(* list_first_entry() of a list whose head does not point to a qnode *)
BadFirst(K, queued) == ~list_empty(K, queued) /\ ~IsQN(K.ln[queued].next)

(* the bio peeked, 0 for NULL *)
throtl_peek_queued(K, queued) ==
    LET qn == K.ln[queued].next
    IN  IF list_empty(K, queued) \/ ~IsQN(qn) THEN 0
        ELSE IF K.qb[qn] = <<>> THEN 0 ELSE Head(K.qb[qn])

(* a pop that leaves the qnode where it is *)
throtl_pop_queued_NoMove(K, queued, want_put) ==
    LET Emptied(K2, qn, bio) ==
          IF want_put
          THEN [K |-> K2, bio |-> bio, put |-> qn[1]]
          ELSE [K |-> IF ~K2.tg[qn[1]].fake THEN blkg_put(K2, qn[1]) ELSE K2,
                bio |-> bio, put |-> NULL]
        Popped(K1, qn, bio) ==
          IF K1.qb[qn] = <<>>
          THEN Emptied(list_del_init(K1, qn), qn, bio)
          ELSE [K |-> K1, bio |-> bio, put |-> NULL]
        First(qn) ==
          IF ~IsQN(qn)
          THEN [K |-> Oops(K, "null_deref"), bio |-> 0, put |-> NULL]
          ELSE IF K.qb[qn] = <<>> THEN Popped(K, qn, 0)
          ELSE Popped([K EXCEPT !.qb[qn] = Tail(@)], qn, Head(K.qb[qn]))
    IN  IF ~Alive(K) \/ list_empty(K, queued)
        THEN [K |-> K, bio |-> 0, put |-> NULL]
        ELSE First(K.ln[queued].next)

(* result: [K, bio, put]; put is *tg_to_put (NULL when not set) *)
throtl_pop_queued(K, queued, want_put) ==
    LET Emptied(K2, qn, bio) ==
          IF want_put
          THEN [K |-> K2, bio |-> bio, put |-> qn[1]]
          ELSE [K |-> IF ~K2.tg[qn[1]].fake THEN blkg_put(K2, qn[1]) ELSE K2,
                bio |-> bio, put |-> NULL]
        Popped(K1, qn, bio) ==
          IF K1.qb[qn] = <<>>
          THEN Emptied(list_del_init(K1, qn), qn, bio)
          ELSE [K |-> list_move_tail(K1, qn, queued), bio |-> bio, put |-> NULL]
        First(qn) ==
          IF ~IsQN(qn)
          THEN [K |-> Oops(K, "null_deref"), bio |-> 0, put |-> NULL]
          ELSE IF K.qb[qn] = <<>> THEN Popped(K, qn, 0)
          ELSE Popped([K EXCEPT !.qb[qn] = Tail(@)], qn, Head(K.qb[qn]))
    IN  IF ~Alive(K) \/ list_empty(K, queued)
        THEN [K |-> K, bio |-> 0, put |-> NULL]
        ELSE First(K.ln[queued].next)

-----------------------------------------------------------------------------
(* Service queues and the pending tree                                     *)
(* K.sq[s].tree is the in-order sequence of the rb-tree; K.tg[t].rb tells  *)
(* whether t's rb_node is "clear" (RB_EMPTY_NODE), "linked", or "zapped"   *)
(* (RB_CLEAR_NODE applied while the node was linked in a tree).            *)

sq_to_tg(K, s) ==
    IF s # NULL /\ K.sq[s].parent_sq # NULL THEN s ELSE NULL

throtl_service_queue_init(K, s, parent_sq) ==
    [INIT_LIST_HEAD(INIT_LIST_HEAD(K, LHead(s, READ)), LHead(s, WRITE))
       EXCEPT !.sq[s].tree = <<>>,
              !.sq[s].parent_sq = parent_sq,
              !.sq[s].timer = [armed |-> FALSE, expires |-> 0]]

TreeZapped(K, s) == \E i \in 1..Len(K.sq[s].tree) : K.tg[K.sq[s].tree[i]].rb = "zapped"

(* result: [K, tg] *)
throtl_rb_first(K, s) ==
    IF K.sq[s].nr_pending = 0 THEN [K |-> K, tg |-> NULL]
    ELSE IF K.sq[s].first_pending = NULL /\ K.sq[s].tree # <<>>
    THEN [K |-> [K EXCEPT !.sq[s].first_pending = Head(K.sq[s].tree)],
          tg |-> Head(K.sq[s].tree)]
    ELSE [K |-> K, tg |-> K.sq[s].first_pending]

SeqRemove(sq, x) == SelectSeq(sq, LAMBDA y : y # x)

throtl_rb_erase(K, t, s) ==
    IF ~Alive(K) THEN K
    ELSE IF s = NULL THEN Oops(K, "null_deref")
    ELSE IF TreeZapped(K, s) \/ K.tg[t].rb # "linked" THEN Oops(K, "rb_corrupt")
    ELSE [K EXCEPT !.sq[s].first_pending = IF @ = t THEN NULL ELSE @,
                   !.sq[s].tree = SeqRemove(@, t),
                   !.tg[t].rb = "clear",
                   !.sq[s].nr_pending = @ - 1]

update_min_dispatch_time(K, s) ==
    LET First(r) ==
          IF r.tg = NULL THEN r.K
          ELSE [r.K EXCEPT !.sq[s].first_pending_disptime = r.K.tg[r.tg].disptime]
    IN  First(throtl_rb_first(K, s))

InsertPos_BeforeEqual(K, tree, key) ==
    Cardinality({i \in 1..Len(tree) : K.tg[tree[i]].disptime < key})

(* position (number of nodes left of the new one) of key in the tree *)
InsertPos(K, tree, key) ==
    Cardinality({i \in 1..Len(tree) : ~(key < K.tg[tree[i]].disptime)})

SeqInsert(sq, pos, x) ==
    SubSeq(sq, 1, pos) \o <<x>> \o SubSeq(sq, pos + 1, Len(sq))

tg_service_queue_add(K, t) ==
    LET Insert(s, pos) ==
          [K EXCEPT !.sq[s].first_pending = IF pos = 0 THEN t ELSE @,
                    !.sq[s].tree = SeqInsert(@, pos, t),
                    !.tg[t].rb = "linked"]
        Add(s) ==
          IF s = NULL THEN Oops(K, "null_deref")
          ELSE IF TreeZapped(K, s) \/ K.tg[t].rb = "linked" THEN Oops(K, "rb_corrupt")
          ELSE Insert(s, InsertPos(K, K.sq[s].tree, K.tg[t].disptime))
    IN  IF ~Alive(K) THEN K ELSE Add(K.sq[t].parent_sq)

throtl_enqueue_tg(K, t) ==
    LET Added(K1) ==
          IF ~Alive(K1) THEN K1
          ELSE [K1 EXCEPT !.tg[t].flags = @ \cup {"PENDING"},
                          !.sq[K1.sq[t].parent_sq].nr_pending = @ + 1]
    IN  IF ~Alive(K) \/ "PENDING" \in K.tg[t].flags THEN K
        ELSE Added(tg_service_queue_add(K, t))

throtl_dequeue_tg(K, t) ==
    LET Erased(K1) ==
          IF ~Alive(K1) THEN K1 ELSE [K1 EXCEPT !.tg[t].flags = @ \ {"PENDING"}]
    IN  IF ~Alive(K) \/ "PENDING" \notin K.tg[t].flags THEN K
        ELSE Erased(throtl_rb_erase(K, t, K.sq[t].parent_sq))

throtl_schedule_pending_timer_Late(K, s, expires) ==
    [K EXCEPT !.sq[s].timer = [armed |-> TRUE, expires |-> expires + 1]]

throtl_schedule_pending_timer(K, s, expires) ==
    [K EXCEPT !.sq[s].timer = [armed |-> TRUE, expires |-> expires]]

throtl_schedule_next_dispatch_NotBefore(K, s, force) ==
    LET Updated(K1) ==
          IF force \/ K1.sq[s].first_pending_disptime >= K1.jiffies
          THEN [K |-> throtl_schedule_pending_timer(K1, s,
                                         K1.sq[s].first_pending_disptime),
                ret |-> TRUE]
          ELSE [K |-> K1, ret |-> FALSE]
    IN  IF ~Alive(K) THEN [K |-> K, ret |-> TRUE]
        ELSE IF s = NULL THEN [K |-> Oops(K, "null_deref"), ret |-> TRUE]
        ELSE IF K.sq[s].nr_pending = 0 THEN [K |-> K, ret |-> TRUE]
        ELSE Updated(update_min_dispatch_time(K, s))

(* result: [K, ret] *)
throtl_schedule_next_dispatch(K, s, force) ==
    LET Updated(K1) ==
          IF force \/ K1.sq[s].first_pending_disptime > K1.jiffies
          THEN [K |-> throtl_schedule_pending_timer(K1, s,
                                         K1.sq[s].first_pending_disptime),
                ret |-> TRUE]
          ELSE [K |-> K1, ret |-> FALSE]
    IN  IF ~Alive(K) THEN [K |-> K, ret |-> TRUE]
        ELSE IF s = NULL THEN [K |-> Oops(K, "null_deref"), ret |-> TRUE]
        ELSE IF K.sq[s].nr_pending = 0 THEN [K |-> K, ret |-> TRUE]
        ELSE Updated(update_min_dispatch_time(K, s))

-----------------------------------------------------------------------------
(* Creation of throtl_grps                                                 *)

Arr3(v) == (READ :> v @@ WRITE :> v @@ RANDW :> v)

Arr2(v) == (READ :> v @@ WRITE :> v)

(* a kzalloc'ed struct throtl_grp *)
ZeroTG ==
    [exists |-> FALSE, fake |-> FALSE, fake_d |-> NULL, td |-> 0,
     bps |-> Arr3(0), iops |-> Arr3(0), has_rules |-> Arr3(FALSE),
     slice_start |-> Arr3(0), slice_end |-> Arr3(0),
     bytes_disp |-> Arr3(0), io_disp |-> Arr3(0),
     disptime |-> 0, flags |-> {}, rb |-> "clear", ref |-> 0]

(* a zeroed struct throtl_service_queue *)
ZeroSQ ==
    [nr_queued |-> Arr2(0), nr_pending |-> 0, first_pending |-> NULL,
     first_pending_disptime |-> 0, tree |-> <<>>, parent_sq |-> NULL,
     timer |-> [armed |-> FALSE, expires |-> 0]]

RB_CLEAR_NODE(K, t) ==
    [K EXCEPT !.tg[t].rb = IF @ = "clear" THEN "clear" ELSE "zapped"]

InitQnodes(K, t) ==
    throtl_qnode_init(throtl_qnode_init(throtl_qnode_init(throtl_qnode_init(K,
        QN(t, "self", READ)), QN(t, "parent", READ)),
        QN(t, "self", WRITE)), QN(t, "parent", WRITE))

throtl_pd_init(K, g, q) ==
    LET t == PG(g, q)
        parent_sq == IF K.on_dfl /\ g # 0 THEN PG(blkcg_parent(g), q) ELSE TD(q)
        K1 == [K EXCEPT !.tg[t].exists = TRUE]
        K2 == InitQnodes(throtl_service_queue_init(K1, t, parent_sq), t)
    IN  [RB_CLEAR_NODE(K2, t) EXCEPT !.tg[t].td = q,
                                     !.tg[t].bps = Arr3(NoLimit),
                                     !.tg[t].iops = Arr3(NoLimit),
                                     !.tg[t].fake = FALSE]

(* has_rules[] from the limits of the throtl_grp alone *)
tg_update_has_rules_OwnOnly(K, t) ==
    LET rules(rw) == K.tg[t].bps[rw] # NoLimit \/ K.tg[t].iops[rw] # NoLimit
    IN  [K EXCEPT !.tg[t].has_rules =
            (READ :> rules(READ) @@ WRITE :> rules(WRITE) @@ RANDW :> rules(RANDW))]

tg_update_has_rules(K, t) ==
    LET parent_tg == sq_to_tg(K, K.sq[t].parent_sq)
        rules(rw) == (parent_tg # NULL /\ K.tg[parent_tg].has_rules[rw])
                     \/ (K.tg[t].bps[rw] # NoLimit \/ K.tg[t].iops[rw] # NoLimit)
    IN  [K EXCEPT !.tg[t].has_rules =
            (READ :> rules(READ) @@ WRITE :> rules(WRITE) @@ RANDW :> rules(RANDW))]

(* blkg_create(): pd_init_fn then pd_online_fn *)
blkg_create(K, g, q) == tg_update_has_rules(throtl_pd_init(K, g, q), PG(g, q))

(* blkg_lookup_create(): create the missing blkgs from the root down *)
RECURSIVE blkg_lookup_create(_, _, _)
blkg_lookup_create(K, g, q) ==
    IF K.tg[PG(g, q)].exists THEN K
    ELSE blkg_create(IF g = 0 THEN K
                     ELSE blkg_lookup_create(K, blkcg_parent(g), q), g, q)

(* blkg_lookup() gives NULL for a queue that is bypassing, as a dying      *)
(* queue is; the throtl_grp of blkcg_root is reached without a lookup      *)
throtl_lookup_tg(K, g, q) ==
    IF g = 0 THEN PG(0, q)
    ELSE IF K.td[q].dying \/ ~K.tg[PG(g, q)].exists THEN NULL
    ELSE PG(g, q)

(* result: [K, tg]; blkg_lookup_create() fails on a bypassing queue, and   *)
(* the fallback to the root throtl_grp is taken only when the queue is not *)
(* dying                                                                   *)
throtl_lookup_create_tg(K, g, q) ==
    IF g = 0 THEN [K |-> K, tg |-> PG(0, q)]
    ELSE IF K.td[q].dying THEN [K |-> K, tg |-> NULL]
    ELSE [K |-> blkg_lookup_create(K, g, q), tg |-> PG(g, q)]

(* tg_init(): the initialisation of a fake-device throtl_grp *)
tg_init(K, t) ==
    [K EXCEPT !.tg[t].exists = TRUE,
              !.tg[t].fake = TRUE,
              !.tg[t].bps = Arr3(NoLimit),
              !.tg[t].iops = Arr3(NoLimit),
              !.tg[t].has_rules = Arr3(FALSE),
              !.tg[t].bytes_disp = Arr3(0),
              !.tg[t].io_disp = Arr3(0)]

(* K.fd_head[g] is the list blkcg->fd_head, as the header throtl_grps *)
fd_lookup_create(K, g, f_id) ==
    IF \E i \in 1..Len(K.fd_head[g]) : K.fd_head[g][i] = FH(g, f_id) THEN K
    ELSE tg_init([K EXCEPT !.fd_head[g] = <<FH(g, f_id)>> \o @], FH(g, f_id))

fd_member_lookup_create_Always(K, fd, q) ==
    LET m == FM(fd[2], fd[3], q)
    IN  tg_init([K EXCEPT !.fd_mem[fd] = <<m>> \o @, !.tg[m].fake_d = fd], m)

(* K.fd_mem[fd] is the list fake_d->head, as the member throtl_grps *)
fd_member_lookup_create(K, fd, q) ==
    IF \E i \in 1..Len(K.fd_mem[fd]) : K.fd_mem[fd][i][4] = q THEN K
    ELSE LET m == FM(fd[2], fd[3], q)
         IN  tg_init([K EXCEPT !.fd_mem[fd] = <<m>> \o @,
                               !.tg[m].fake_d = fd], m)

(* the member throtl_grps of fake device fd, in list order *)
Members(K, fd) == K.fd_mem[fd]

(* the fake devices of blkcg g, in list order *)
FakeDevs(K, g) == K.fd_head[g]

queue_in_fake_d(K, fd, q) ==
    \E i \in 1..Len(K.fd_mem[fd]) : K.fd_mem[fd][i][4] = q

fake_d_has_limit(K, fd, rw, q) ==
    queue_in_fake_d(K, fd, q) /\ K.tg[fd].has_rules[rw]

RECURSIVE FoldSeq(_, _, _, _)
(* apply Op(K, x) to the elements of sq from index i on *)
FoldSeq(Op(_, _), K, sq, i) ==
    IF i > Len(sq) THEN K ELSE FoldSeq(Op, Op(K, sq[i]), sq, i + 1)

RECURSIVE fd_throtl_init_members(_, _, _)
fd_throtl_init_members(K, ms, i) ==
    IF i > Len(ms) THEN K
    ELSE LET t == ms[i]
             K1 == throtl_service_queue_init(K, t, TD(t[4]))
         IN  fd_throtl_init_members(RB_CLEAR_NODE(InitQnodes(K1, t), t), ms, i + 1)

RECURSIVE fd_throtl_init_fds(_, _, _)
fd_throtl_init_fds(K, fds, i) ==
    IF i > Len(fds) THEN K
    ELSE LET K1 == RB_CLEAR_NODE(InitQnodes(K, fds[i]), fds[i])
         IN  fd_throtl_init_fds(fd_throtl_init_members(K1, Members(K, fds[i]), 1),
                                fds, i + 1)

fd_throtl_init(K, g) == fd_throtl_init_fds(K, FakeDevs(K, g), 1)

tg_fd_update_has_rules_recursively(K, fd) ==
    LET rules(rw) == K.tg[fd].bps[rw] # NoLimit \/ K.tg[fd].iops[rw] # NoLimit
        own == (READ :> rules(READ) @@ WRITE :> rules(WRITE) @@ RANDW :> rules(RANDW))
        K1 == [K EXCEPT !.tg[fd].has_rules = own]
        Copy(KK, m) == [KK EXCEPT !.tg[m].bps = KK.tg[fd].bps,
                                  !.tg[m].iops = KK.tg[fd].iops,
                                  !.tg[m].has_rules = own]
    IN  FoldSeq(Copy, K1, Members(K, fd), 1)

throtl_start_new_slice_recursively(K, fd, rw) ==
    LET Start(KK, m) == throtl_start_new_slice(KK, m, rw)
    IN  FoldSeq(Start, throtl_start_new_slice(K, fd, rw), Members(K, fd), 1)

throtl_trim_slice_recursively(K, fd, rw) ==
    LET Trim(KK, m) == throtl_trim_slice(KK, m, rw)
    IN  FoldSeq(Trim, throtl_trim_slice(K, fd, rw), Members(K, fd), 1)

(* what a trace of the charge shows when tracing is on: K.charge_odd       *)
(* collects the fake devices for which a throtl_charge_bio_recursively()   *)
(* from K0 to K1 did not add the size of bio b to bytes_disp, and 1 to     *)
(* io_disp, in b's direction and in RANDW on the header throtl_grp and on  *)
(* every member throtl_grp alike                                           *)
ChargeLog(K0, K1, fd, b) ==
    LET Whole(t, rw) ==
          /\ K1.tg[t].bytes_disp[rw] = K0.tg[t].bytes_disp[rw] + K0.bio[b].size
          /\ K1.tg[t].io_disp[rw] = K0.tg[t].io_disp[rw] + 1
    IN  IF K0.trace
           /\ \E t \in {fd} \cup {Members(K0, fd)[i] : i \in 1..Len(Members(K0, fd))} :
                 ~(Whole(t, K0.bio[b].dir) /\ Whole(t, RANDW))
        THEN [K1 EXCEPT !.charge_odd = @ \cup {fd}]
        ELSE K1

throtl_charge_bio_recursively_HeaderOnly(K, fd, b) ==
    IF ~Alive(K) THEN K
    ELSE IF fd = NULL THEN Oops(K, "null_deref")
    ELSE ChargeLog(K, throtl_charge_bio(K, fd, b), fd, b)

throtl_charge_bio_recursively(K, fd, b) ==
    LET Charge(KK, m) == throtl_charge_bio(KK, m, b)
    IN  IF ~Alive(K) THEN K
        ELSE IF fd = NULL THEN Oops(K, "null_deref")
        ELSE ChargeLog(K, FoldSeq(Charge, throtl_charge_bio(K, fd, b),
                                  Members(K, fd), 1),
                       fd, b)

-----------------------------------------------------------------------------
(* Queueing a bio on a throtl_grp                                          *)

throtl_add_bio_tg_NoCount(K, b, qn0, t) ==
    LET Added(K2, rw) ==
          IF ~Alive(K2) THEN K2
          ELSE throtl_enqueue_tg(K2, t)
        Add(rw) ==
          Added(throtl_qnode_add_bio(
                  IF K.sq[t].nr_queued[rw] = 0
                  THEN [K EXCEPT !.tg[t].flags = @ \cup {"WAS_EMPTY"}] ELSE K,
                  b, IF qn0 = NNULL THEN QN(t, "self", rw) ELSE qn0, LHead(t, rw)),
                rw)
    IN  Add(K.bio[b].dir)

throtl_add_bio_tg(K, b, qn0, t) ==
    LET Added(K2, rw) ==
          IF ~Alive(K2) THEN K2
          ELSE throtl_enqueue_tg([K2 EXCEPT !.sq[t].nr_queued[rw] = @ + 1], t)
        Add(rw) ==
          Added(throtl_qnode_add_bio(
                  IF K.sq[t].nr_queued[rw] = 0
                  THEN [K EXCEPT !.tg[t].flags = @ \cup {"WAS_EMPTY"}] ELSE K,
                  b, IF qn0 = NNULL THEN QN(t, "self", rw) ELSE qn0, LHead(t, rw)),
                rw)
    IN  Add(K.bio[b].dir)

throtl_add_bio_fd_tg(K, b, fd, q) ==
    LET Added(K2, m, rw) ==
          IF ~Alive(K2) THEN K2
          ELSE throtl_enqueue_tg([K2 EXCEPT !.sq[m].nr_queued[rw] = @ + 1,
                                            !.sq[fd].nr_queued[rw] = @ + 1], m)
        Add(m, rw) ==
          Added(throtl_qnode_add_bio_withoutblkg(
                  IF K.sq[fd].nr_queued[rw] = 0
                  THEN [K EXCEPT !.tg[fd].flags = @ \cup {"WAS_EMPTY"}] ELSE K,
                  b, QN(m, "self", rw), LHead(m, rw)),
                m, rw)
    IN  IF ~Alive(K) THEN K
        ELSE IF fd = NULL THEN Oops(K, "null_deref")
        ELSE IF ~queue_in_fake_d(K, fd, q) THEN Oops(K, "bug_on")
        ELSE Add(FM(fd[2], fd[3], q), K.bio[b].dir)

(* an unsigned int held as the signed value of the same bit pattern *)
Unsigned(x) == IF x < 0 THEN x + 1073741824 ELSE x

RECURSIVE SumQueued(_, _, _, _)
SumQueued(K, ms, rw, i) ==
    IF i > Len(ms) THEN 0
    ELSE K.sq[ms[i]].nr_queued[rw] + SumQueued(K, ms, rw, i + 1)

update_fd_queuenr(K, fd) ==
    LET Store(K1, rw, total) ==
          IF Unsigned(total) <= Unsigned(K1.sq[fd].nr_queued[rw])
          THEN [K1 EXCEPT !.sq[fd].nr_queued[rw] = total] ELSE K1
        Writes(K1, total0) ==
          Store(K1, WRITE, total0 + SumQueued(K1, Members(K1, fd), WRITE, 1))
        Reads(total0) == Writes(Store(K, READ, total0), total0)
    IN  IF ~Alive(K) THEN K
        ELSE IF fd = NULL THEN Oops(K, "null_deref")
        ELSE Reads(SumQueued(K, Members(K, fd), READ, 1))

-----------------------------------------------------------------------------
(* Dispatch time                                                           *)

(* tg_may_dispatch() on the bio peeked from queued[rw], if any:            *)
(* result [K, wait], wait = WaitInf when nothing is queued                 *)
PeekWait(K, t, rw) ==
    LET May(r) == [K |-> r.K, wait |-> r.wait]
        Peeked(b) ==
          IF b = 0 THEN [K |-> K, wait |-> WaitInf]
          ELSE May(tg_may_dispatch(K, t, K.bio[b].dir, K.bio[b].size))
    IN  IF ~Alive(K) THEN [K |-> K, wait |-> WaitInf]
        ELSE IF BadFirst(K, LHead(t, rw))
        THEN [K |-> Oops(K, "null_deref"), wait |-> WaitInf]
        ELSE Peeked(throtl_peek_queued(K, LHead(t, rw)))

(* jiffies + min_wait in unsigned long arithmetic *)
DispTime(K, min_wait) ==
    IF min_wait = WaitInf THEN K.jiffies - 1 ELSE K.jiffies + min_wait

SetDisptime(K, t, disptime) ==
    LET Enqueued(K3) ==
          IF Alive(K3) THEN [K3 EXCEPT !.tg[t].flags = @ \ {"WAS_EMPTY"}] ELSE K3
        Dequeued(K1) ==
          Enqueued(throtl_enqueue_tg(
                     IF Alive(K1) THEN [K1 EXCEPT !.tg[t].disptime = disptime]
                     ELSE K1, t))
    IN  Dequeued(throtl_dequeue_tg(K, t))

tg_update_disptime(K, t) ==
    LET Writes(w, read_wait) ==
          IF ~Alive(w.K) THEN w.K
          ELSE SetDisptime(w.K, t, DispTime(w.K, Min(read_wait, w.wait)))
        Reads(r) == Writes(PeekWait(r.K, t, WRITE), r.wait)
    IN  Reads(PeekWait(K, t, READ))

RECURSIVE MembersWait(_, _, _, _)
(* the first loop of tg_update_disptime_recursively(): [K, wait] *)
MembersWait(K, ms, i, min_wait) ==
    LET Writes(w, read_wait) ==
          MembersWait(w.K, ms, i + 1, Min(min_wait, Min(read_wait, w.wait)))
        Reads(r) == Writes(PeekWait(r.K, ms[i], WRITE), r.wait)
    IN  IF i > Len(ms) \/ ~Alive(K) THEN [K |-> K, wait |-> min_wait]
        ELSE Reads(PeekWait(K, ms[i], READ))

tg_update_disptime_recursively(K, fd) ==
    LET Update(K1, disptime) ==
          LET Set(KK, m) == SetDisptime(KK, m, disptime)
          IN  FoldSeq(Set, [K1 EXCEPT !.tg[fd].disptime = disptime,
                                      !.tg[fd].flags = @ \ {"WAS_EMPTY"}],
                      Members(K, fd), 1)
        Waited(r) ==
          IF ~Alive(r.K) THEN r.K ELSE Update(r.K, DispTime(r.K, r.wait))
    IN  Waited(MembersWait(K, Members(K, fd), 1, WaitInf))

-----------------------------------------------------------------------------
(* Dispatch                                                                *)

start_parent_slice_with_credit(K, child_tg, parent_tg, rw) ==
    IF throtl_slice_used(K, parent_tg, rw)
    THEN throtl_start_new_slice_with_credit(K, parent_tg, rw,
                                 K.tg[child_tg].slice_start[ToBool(rw)])
    ELSE K

(* BUG_ON(td->nr_queued[rw] <= 0); td->nr_queued[rw]-- *)
TdDec(K, q, rw) ==
    IF ~Alive(K) THEN K
    ELSE IF q = 0 THEN Oops(K, "null_deref")
    ELSE IF K.td[q].nr_queued[rw] = 0 THEN Oops(K, "bug_on_queued")
    ELSE [K EXCEPT !.td[q].nr_queued[rw] = @ - 1]

tg_dispatch_one_bio(K, t, rw) ==
    LET parent_sq == K.sq[t].parent_sq
        parent_tg == sq_to_tg(K, K.sq[t].parent_sq)
        fake_d == K.tg[t].fake_d
        Put(K4, put) ==
          IF Alive(K4) /\ put # NULL /\ ~K4.tg[t].fake THEN blkg_put(K4, put) ELSE K4
        Trim(K3, d) ==
          IF ~Alive(K3) \/ ~K3.tg[t].has_rules[d] THEN K3
          ELSE IF K3.tg[t].fake THEN throtl_trim_slice_recursively(K3, fake_d, d)
          ELSE throtl_trim_slice(K3, t, d)
        Move(K2, b) ==
          IF ~Alive(K2) THEN K2
          ELSE IF parent_tg # NULL
          THEN start_parent_slice_with_credit(
                 start_parent_slice_with_credit(
                   throtl_add_bio_tg(K2, b, QN(t, "parent", rw), parent_tg),
                   t, parent_tg, rw),
                 t, parent_tg, RANDW)
          ELSE IF fake_d # NULL
          THEN TdDec(throtl_qnode_add_bio_withoutblkg(K2, b, QN(t, "parent", rw),
                          LHead(TD(K2.bio[b].q), rw)), K2.bio[b].q, rw)
          ELSE IF parent_sq = NULL THEN Oops(K2, "null_deref")
          ELSE TdDec(throtl_qnode_add_bio(K2, b, QN(t, "parent", rw),
                          LHead(parent_sq, rw)), K2.tg[t].td, rw)
        Charge(K1, b) ==
          IF K1.tg[t].fake THEN throtl_charge_bio_recursively(K1, fake_d, b)
          ELSE throtl_charge_bio(K1, t, b)
        Popped(p) ==
          IF ~Alive(p.K) THEN p.K
          ELSE IF p.bio = 0 THEN Oops(p.K, "null_deref")
          ELSE Put(Trim(Trim(Move(Charge([p.K EXCEPT !.sq[t].nr_queued[rw] = @ - 1],
                                         p.bio),
                                  p.bio),
                             rw),
                        RANDW),
                   p.put)
    IN  Popped(throtl_pop_queued(K, LHead(t, rw), TRUE))

RECURSIVE DispatchDir(_, _, _, _, _)
(* one while loop of throtl_dispatch_tg(): result [K, n] *)
DispatchDir(K, t, rw, n, max_nr) ==
    LET Dispatched(K1) ==
          IF n + 1 >= max_nr THEN [K |-> K1, n |-> n + 1]
          ELSE DispatchDir(K1, t, rw, n + 1, max_nr)
        May(r, b) ==
          IF ~r.ok THEN [K |-> r.K, n |-> n]
          ELSE Dispatched(tg_dispatch_one_bio(r.K, t, K.bio[b].dir))
        Peeked(b) ==
          IF b = 0 THEN [K |-> K, n |-> n]
          ELSE May(tg_may_dispatch(K, t, K.bio[b].dir, K.bio[b].size), b)
    IN  IF ~Alive(K) THEN [K |-> K, n |-> n]
        ELSE IF BadFirst(K, LHead(t, rw)) THEN [K |-> Oops(K, "null_deref"), n |-> n]
        ELSE Peeked(throtl_peek_queued(K, LHead(t, rw)))

throtl_dispatch_tg_Whole(K, t) ==
    LET max_nr_reads == throtl_grp_quantum
        max_nr_writes == throtl_grp_quantum - (throtl_grp_quantum * 3) \div 4
        Writes(w, nr_reads) == [K |-> w.K, n |-> nr_reads + w.n]
        Reads(r) == Writes(DispatchDir(r.K, t, WRITE, 0, max_nr_writes), r.n)
    IN  Reads(DispatchDir(K, t, READ, 0, max_nr_reads))

(* result: [K, n] *)
throtl_dispatch_tg(K, t) ==
    LET max_nr_reads == (throtl_grp_quantum * 3) \div 4
        max_nr_writes == throtl_grp_quantum - (throtl_grp_quantum * 3) \div 4
        Writes(w, nr_reads) == [K |-> w.K, n |-> nr_reads + w.n]
        Reads(r) == Writes(DispatchDir(r.K, t, WRITE, 0, max_nr_writes), r.n)
    IN  Reads(DispatchDir(K, t, READ, 0, max_nr_reads))

RECURSIVE SelectLoop(_, _, _, _)
SelectLoop_LastRound(K, s, nr_disp, idle) ==
    LET Updated(K1, n) ==
          IF n >= throtl_quantum THEN [K |-> K1, n |-> nr_disp + n]
          ELSE SelectLoop(K1, s, nr_disp + n, IF n = 0 THEN idle + 1 ELSE 0)
        Dispatched(d, t) ==
          Updated(IF Alive(d.K) /\ (d.K.sq[t].nr_queued[READ] # 0
                                    \/ d.K.sq[t].nr_queued[WRITE] # 0)
                  THEN tg_update_disptime(d.K, t) ELSE d.K,
                  d.n)
        First(f) ==
          IF f.tg = NULL THEN [K |-> f.K, n |-> nr_disp]
          ELSE IF f.K.jiffies < f.K.tg[f.tg].disptime THEN [K |-> f.K, n |-> nr_disp]
          ELSE Dispatched(throtl_dispatch_tg(throtl_dequeue_tg(f.K, f.tg), f.tg), f.tg)
    IN  IF ~Alive(K) THEN [K |-> K, n |-> nr_disp]
        ELSE IF idle > Cardinality(TGs) THEN [K |-> Oops(K, "lockup"), n |-> nr_disp]
        ELSE First(throtl_rb_first(K, s))

(* the loop of throtl_select_dispatch(); idle counts the rounds that       *)
(* dispatched nothing: more of them than there are throtl_grps means the   *)
(* loop has stopped making progress and never ends                         *)
SelectLoop(K, s, nr_disp, idle) ==
    LET Updated(K1, n) ==
          IF nr_disp + n >= throtl_quantum THEN [K |-> K1, n |-> nr_disp + n]
          ELSE SelectLoop(K1, s, nr_disp + n, IF n = 0 THEN idle + 1 ELSE 0)
        Dispatched(d, t) ==
          Updated(IF Alive(d.K) /\ (d.K.sq[t].nr_queued[READ] # 0
                                    \/ d.K.sq[t].nr_queued[WRITE] # 0)
                  THEN tg_update_disptime(d.K, t) ELSE d.K,
                  d.n)
        First(f) ==
          IF f.tg = NULL THEN [K |-> f.K, n |-> nr_disp]
          ELSE IF f.K.jiffies < f.K.tg[f.tg].disptime THEN [K |-> f.K, n |-> nr_disp]
          ELSE Dispatched(throtl_dispatch_tg(throtl_dequeue_tg(f.K, f.tg), f.tg), f.tg)
    IN  IF ~Alive(K) THEN [K |-> K, n |-> nr_disp]
        ELSE IF idle > Cardinality(TGs) THEN [K |-> Oops(K, "lockup"), n |-> nr_disp]
        ELSE First(throtl_rb_first(K, s))

throtl_select_dispatch(K, s) == SelectLoop(K, s, 0, 0)

-----------------------------------------------------------------------------
(* Timer, worker and drain                                                 *)

(* sq_to_td(): the queue number of the throtl_data behind s *)
sq_to_td(K, s) == IF s[1] = "td" THEN s[3] ELSE K.tg[s].td

RECURSIVE TimerLoop(_, _, _, _)
(* the while (true) loop of throtl_pending_timer_fn(): [K, dispatched] *)
TimerLoop(K, s, dispatched, rounds) ==
    LET Scheduled(n, d) ==
          IF ~Alive(n.K) \/ n.ret THEN [K |-> n.K, dispatched |-> d]
          ELSE IF rounds > Cardinality(TGs)
          THEN [K |-> Oops(n.K, "lockup"), dispatched |-> d]
          ELSE TimerLoop(n.K, s, d, rounds + 1)
        Selected(r) ==
          Scheduled(throtl_schedule_next_dispatch(r.K, s, FALSE),
                    dispatched \/ r.n > 0)
    IN  Selected(throtl_select_dispatch(K, s))

RECURSIVE throtl_pending_timer_fn(_, _)
throtl_pending_timer_fn(K, s) ==
    LET Scheduled(n) ==
          IF ~Alive(n.K) \/ n.ret THEN n.K
          ELSE throtl_pending_timer_fn(n.K, K.sq[s].parent_sq)
        Looped(l) ==
          IF ~Alive(l.K) \/ ~l.dispatched THEN l.K
          ELSE IF K.sq[s].parent_sq # NULL
          THEN IF "WAS_EMPTY" \in l.K.tg[sq_to_tg(K, s)].flags
               THEN Scheduled(throtl_schedule_next_dispatch(
                                tg_update_disptime(l.K, sq_to_tg(K, s)),
                                K.sq[s].parent_sq, FALSE))
               ELSE l.K
          ELSE [l.K EXCEPT !.td[sq_to_td(l.K, s)].work = TRUE]
    IN  Looped(TimerLoop(K, s, FALSE, 0))

-----------------------------------------------------------------------------
(* Configuration writes                                                    *)

(* K.lock is the set of queues whose queue_lock is held *)
spin_lock_irq(K, q) ==
    IF ~Alive(K) THEN K
    ELSE IF q \in K.lock THEN Oops(K, "lockup")
    ELSE [K EXCEPT !.lock = @ \cup {q}]

spin_unlock_irq(K, q) == [K EXCEPT !.lock = @ \ {q}]

(* what lockdep would see of a store to the throttling state of queue q:   *)
(* K.unlocked collects the queues written to without their queue_lock      *)
LockdepStore(K, q) ==
    IF q \in K.lock THEN K ELSE [K EXCEPT !.unlocked = @ \cup {q}]

(* the store of ctx.v into the field named by cft->private; 0 means -1 *)
SetLimit(K, t, field, rw, v) ==
    LET val == IF v = 0 THEN NoLimit ELSE v
    IN  IF field = "bps" THEN [K EXCEPT !.tg[t].bps[rw] = val]
        ELSE [K EXCEPT !.tg[t].iops[rw] = val]

(* the blkgs of queue q below and including group g, in pre-order *)
BlkgsPre(K, g, q) ==
    SelectSeq(<<PG(0, q), PG(1, q)>>, LAMBDA t : t[2] >= g /\ K.tg[t].exists)

blkg_conf_prep(K, g, q) == blkg_lookup_create(spin_lock_irq(K, q), g, q)

blkg_conf_finish(K, q) == spin_unlock_irq(K, q)

tg_set_conf(K, g, q, field, rw, v) ==
    LET Restarted(K3, t) ==
          IF "PENDING" \in K3.tg[t].flags
          THEN throtl_schedule_next_dispatch(tg_update_disptime(K3, t),
                                             K3.sq[t].parent_sq, TRUE).K
          ELSE K3
        Stored(K1, t) ==
          Restarted(throtl_start_new_slice(throtl_start_new_slice(
                      throtl_start_new_slice(
                        FoldSeq(tg_update_has_rules, K1, BlkgsPre(K1, g, q), 1),
                        t, 0), t, 1), t, 2),
                    t)
        Prepared(K0, t) == Stored(LockdepStore(SetLimit(K0, t, field, rw, v), q), t)
    IN  blkg_conf_finish(Prepared(blkg_conf_prep(K, g, q), PG(g, q)), q)

(* blkg_fd_conf_prep(): the queue lock is not taken *)
blkg_fd_conf_prep(K, g, q, fd_id) ==
    fd_member_lookup_create(fd_lookup_create(K, g, fd_id), FH(g, fd_id), q)

(* blkg_fd_conf_finish(): the queue lock is not released *)
blkg_fd_conf_finish(K) == K

(* the stores of tg_fd_set_conf() go to the member throtl_grps of every    *)
(* fake device of the blkcg (fd_throtl_init)                               *)
LockdepStoreFds(K, g) ==
    LET Mem(KK, m) == LockdepStore(KK, m[4])
        Fd(KK, fd) == FoldSeq(Mem, KK, Members(K, fd), 1)
    IN  FoldSeq(Fd, K, FakeDevs(K, g), 1)

tg_fd_set_conf(K, g, q, fd_id, rw, v) ==
    LET Restarted(K4, fd) ==
          IF "PENDING" \in K4.tg[fd].flags
          THEN tg_update_disptime_recursively(K4, fd) ELSE K4
        Prepared(K0, fd) ==
          Restarted(throtl_start_new_slice_recursively(
                      throtl_start_new_slice_recursively(
                        throtl_start_new_slice_recursively(
                          fd_throtl_init(
                            tg_fd_update_has_rules_recursively(
                              LockdepStoreFds(SetLimit(K0, fd, "bps", rw, v), g),
                              fd),
                            g),
                          fd, 0), fd, 1), fd, 2),
                    fd)
    IN  blkg_fd_conf_finish(Prepared(blkg_fd_conf_prep(K, g, q, fd_id), FH(g, fd_id)))

-----------------------------------------------------------------------------
(* blk_throtl_bio()                                                        *)

(* the lockless section: TRUE when it leaves through out_unlock_rcu *)
RcuWithoutLimit(K, g, q, rw) ==
    /\ throtl_lookup_tg(K, g, q) # NULL
    /\ K.tg[PG(g, q)].exists
    /\ ~K.tg[PG(g, q)].has_rules[rw] /\ ~K.tg[PG(g, q)].has_rules[RANDW]
    /\ \A i \in 1..Len(FakeDevs(K, g)) :
          ~(queue_in_fake_d(K, FakeDevs(K, g)[i], q)
            /\ (fake_d_has_limit(K, FakeDevs(K, g)[i], rw, q)
                \/ fake_d_has_limit(K, FakeDevs(K, g)[i], RANDW, q)))

TrimBoth(K, t, rw) ==
    LET Trim(A, d) ==
          IF Alive(A) /\ A.tg[t].has_rules[d] THEN throtl_trim_slice(A, t, d) ELSE A
    IN  Trim(Trim(K, rw), RANDW)

TrimBothRecursively(K, fd, rw) ==
    LET Trim(A, d) ==
          IF Alive(A) /\ A.tg[fd].has_rules[d]
          THEN throtl_trim_slice_recursively(A, fd, d) ELSE A
    IN  Trim(Trim(K, rw), RANDW)

RECURSIVE Climb(_, _, _, _)
(* the while (true) loop over the throtl_grp and its ancestors:            *)
(* [K, brk, tg, qn], brk = TRUE when it breaks to queue on tg              *)
Climb(K, b, t, qn) ==
    LET Up(K1, up, qn1) ==
          IF ~Alive(K1) \/ up = NULL
          THEN [K |-> K1, brk |-> FALSE, tg |-> NULL, qn |-> qn1]
          ELSE Climb(K1, b, up, qn1)
        Charged(K1) ==
          Up(K1, sq_to_tg(K1, K1.sq[t].parent_sq), QN(t, "parent", K.bio[b].dir))
        May(r) ==
          IF ~r.ok THEN [K |-> r.K, brk |-> TRUE, tg |-> t, qn |-> qn]
          ELSE Charged(TrimBoth(throtl_charge_bio(r.K, t, b), t, K.bio[b].dir))
    IN  IF K.sq[t].nr_queued[K.bio[b].dir] # 0
        THEN [K |-> K, brk |-> TRUE, tg |-> t, qn |-> qn]
        ELSE May(tg_may_dispatch(K, t, K.bio[b].dir, K.bio[b].size))

(* the queueing on a throtl_grp of the blkg tree; fake_d is read there     *)
(* without ever having been assigned, ub is the value it happens to hold   *)
QueueOnTg(K, b, t, q, ub) ==
    LET Charge(KK, fd) ==
          IF queue_in_fake_d(KK, fd, q) /\ fake_d_has_limit(KK, fd, K.bio[b].dir, q)
          THEN throtl_charge_bio_recursively(KK, fd, b) ELSE KK
        Scheduled(K3) ==
          IF ~Alive(K3) THEN K3
          ELSE FoldSeq(Charge, K3, FakeDevs(K3, K.bio[b].blkcg), 1)
        Added(K2) ==
          Scheduled(IF Alive(K2) /\ "WAS_EMPTY" \in K2.tg[t].flags
                    THEN throtl_schedule_next_dispatch(tg_update_disptime(K2, t),
                                                       K2.sq[t].parent_sq, TRUE).K
                    ELSE K2)
    IN  Added(throtl_add_bio_fd_tg(
                [K EXCEPT !.td[K.tg[t].td].nr_queued[K.bio[b].dir] = @ + 1],
                b, ub, q))

RECURSIVE FdWalk(_, _, _, _, _)
(* the while (true) loop over the fake devices: [K, brk, fd] *)
FdWalk(K, b, q, fds, i) ==
    LET Step(K2) ==
          IF ~Alive(K2) \/ i = Len(fds) THEN [K |-> K2, brk |-> FALSE, fd |-> NULL]
          ELSE FdWalk(K2, b, q, fds, i + 1)
        May(r) ==
          IF ~r.ok THEN [K |-> r.K, brk |-> TRUE, fd |-> fds[i]]
          ELSE Step(TrimBothRecursively(
                      throtl_charge_bio_recursively(r.K, fds[i], b),
                      fds[i], K.bio[b].dir))
        Counted(K1) ==
          IF ~Alive(K1) THEN [K |-> K1, brk |-> FALSE, fd |-> NULL]
          ELSE IF ~fake_d_has_limit(K1, fds[i], K.bio[b].dir, q) THEN Step(K1)
          ELSE IF K1.sq[fds[i]].nr_queued[K.bio[b].dir] # 0
          THEN [K |-> K1, brk |-> TRUE, fd |-> fds[i]]
          ELSE May(tg_may_dispatch(K1, fds[i], K.bio[b].dir, K.bio[b].size))
    IN  Counted(update_fd_queuenr(K, fds[i]))

(* the queueing on the member throtl_grp of fake device fd *)
QueueOnFd(K, b, q, fd, qn) ==
    LET Updated(K3, m) ==
          IF ~Alive(K3) THEN K3
          ELSE throtl_schedule_next_dispatch(K3, K3.sq[m].parent_sq, TRUE).K
        Queue(m) ==
          Updated(tg_update_disptime_recursively(
                    throtl_add_bio_tg(
                      [K EXCEPT !.td[q].nr_queued[K.bio[b].dir] = @ + 1],
                      b, qn, m),
                    fd),
                  m)
    IN  Queue(FM(fd[2], fd[3], q))

(* fake_device_check: for a bio that was not throttled: [K, ret] *)
FakeDeviceCheck(K, b, q, qn) ==
    LET Walked(w) ==
          IF w.brk THEN [K |-> QueueOnFd(w.K, b, q, w.fd, qn), ret |-> TRUE]
          ELSE [K |-> w.K, ret |-> FALSE]
    IN  IF FakeDevs(K, K.bio[b].blkcg) = <<>>
        THEN [K |-> Oops(K, "null_deref"), ret |-> FALSE]
        ELSE Walked(FdWalk(K, b, q, FakeDevs(K, K.bio[b].blkcg), 1))

(* out: without the clearing of REQ_THROTTLED *)
Out_FlagLeft(r, b) == r

(* out: the flag is cleared when the bio was not throttled *)
Out(r, b) ==
    IF r.ret \/ ~Alive(r.K) THEN r
    ELSE [K |-> [r.K EXCEPT !.bio[b].throttled = FALSE], ret |-> FALSE]

(* result: [K, ret] *)
blk_throtl_bio(K, b, ub) ==
    LET Climbed(c, g, q) ==
          IF ~Alive(c.K) THEN [K |-> c.K, ret |-> FALSE]
          ELSE IF c.brk THEN [K |-> QueueOnTg(c.K, b, c.tg, q, ub), ret |-> TRUE]
          ELSE IF c.notg \/ FakeDevs(c.K, g) # <<>>
          THEN Out(FakeDeviceCheck(c.K, b, q, c.qn), b)
          ELSE Out([K |-> c.K, ret |-> FALSE], b)
        Looked(l) ==
          IF l.tg = NULL
          THEN [K |-> l.K, brk |-> FALSE, tg |-> NULL, qn |-> NNULL, notg |-> TRUE]
          ELSE [notg |-> FALSE] @@ Climb(l.K, b, l.tg, NNULL)
        Locked(g, q) == Climbed(Looked(throtl_lookup_create_tg(K, g, q)), g, q)
    IN  IF K.bio[b].throttled THEN Out([K |-> K, ret |-> FALSE], b)
        ELSE IF RcuWithoutLimit(K, K.bio[b].blkcg, K.bio[b].q, K.bio[b].dir)
        THEN [K |-> K, ret |-> FALSE]
        ELSE Locked(K.bio[b].blkcg, K.bio[b].q)

-----------------------------------------------------------------------------
(* The dispatch work and the drain                                         *)

(* generic_make_request() of a bio released by the throttler: every bio on *)
(* a throtl_data's queue was charged when it was dispatched to it and so   *)
(* carries REQ_THROTTLED; it comes back into blk_throtl_bio(), leaves it   *)
(* at once by out:, where the flag is cleared, and goes on to the driver   *)
Resubmit(K, b) ==
    [K EXCEPT !.bio[b] = [NewBio EXCEPT !.st = "issued",
                                        !.nissued = K.bio[b].nissued + 1,
                                        !.size = IF K.trace THEN K.bio[b].size
                                                 ELSE 0,
                                        !.at = IF K.trace THEN K.jiffies ELSE 0]]

RECURSIVE PopAll(_, _, _)
(* while ((bio = throtl_pop_queued(queued, NULL))): [K, bios] *)
PopAll(K, queued, acc) ==
    LET Popped(p) ==
          IF ~Alive(p.K) \/ p.bio = 0 THEN [K |-> p.K, bios |-> acc]
          ELSE PopAll(p.K, queued, Append(acc, p.bio))
    IN  Popped(throtl_pop_queued(K, queued, FALSE))

blk_throtl_dispatch_work_fn(K, q) ==
    LET Writes(w) == IF ~Alive(w.K) THEN w.K ELSE FoldSeq(Resubmit, w.K, w.bios, 1)
        Reads(r) == Writes(PopAll(r.K, LHead(TD(q), WRITE), r.bios))
    IN  Reads(PopAll(K, LHead(TD(q), READ), <<>>))

RECURSIVE DrainDir(_, _, _)
(* while ((bio = throtl_peek_queued(&sq->queued[rw]))) tg_dispatch_one_bio *)
DrainDir(K, t, rw) ==
    IF ~Alive(K) THEN K
    ELSE IF BadFirst(K, LHead(t, rw)) THEN Oops(K, "null_deref")
    ELSE LET b == throtl_peek_queued(K, LHead(t, rw))
         IN  IF b = 0 THEN K
             ELSE DrainDir(tg_dispatch_one_bio(K, t, K.bio[b].dir), t, rw)

RECURSIVE tg_drain_bios(_, _)
tg_drain_bios(K, parent_sq) ==
    LET First(f) ==
          IF f.tg = NULL THEN f.K
          ELSE tg_drain_bios(
                 DrainDir(DrainDir(throtl_dequeue_tg(f.K, f.tg), f.tg, READ),
                          f.tg, WRITE), parent_sq)
    IN  IF ~Alive(K) THEN K ELSE First(throtl_rb_first(K, parent_sq))

(* the blkgs of queue q in post-order: children before parents *)
BlkgsPost(K, q) ==
    SelectSeq(<<PG(1, q), PG(0, q)>>, LAMBDA t : K.tg[t].exists)

blk_throtl_drain(K, q) ==
    LET Writes(w) == IF ~Alive(w.K) THEN w.K ELSE FoldSeq(Resubmit, w.K, w.bios, 1)
        Reads(r) == Writes(PopAll(r.K, LHead(TD(q), WRITE), r.bios))
    IN  Reads(PopAll(tg_drain_bios(FoldSeq(tg_drain_bios, K, BlkgsPost(K, q), 1),
                                   TD(q)),
                     LHead(TD(q), READ), <<>>))

-----------------------------------------------------------------------------
(* The state machine                                                       *)

(* blkcg_init_queue() and blk_throtl_init() of queue q: the throtl_data    *)
(* and the root group's throtl_grp                                         *)
blk_throtl_init(K, q) ==
    throtl_pd_init(throtl_service_queue_init(K, TD(q), NULL), 0, q)

ZeroK(dfl) ==
    [jiffies |-> 1, on_dfl |-> dfl, oops |-> "none", lock |-> {}, unlocked |-> {},
     trace |-> FALSE, trim_over |-> {}, charge_odd |-> {}, recharged |-> {},
     ret |-> 0, popped |-> <<>>, snap |-> <<>>,
     tg |-> [t \in TGs |-> ZeroTG],
     sq |-> [s \in SQs |-> ZeroSQ],
     ln |-> [n \in Nodes |-> [next |-> NNULL, prev |-> NNULL]],
     qb |-> [n \in QNs |-> <<>>],
     td |-> [q \in Queues |-> [nr_queued |-> Arr2(0), work |-> FALSE,
                                dying |-> FALSE]],
     bio |-> [b \in 1..MaxBios |-> NewBio],
     fd_head |-> [g \in Groups |-> <<>>],
     fd_mem |-> [fd \in FHs |-> <<>>]]

InitK(dfl) == blk_throtl_init(blk_throtl_init(ZeroK(dfl), 1), 2)

Init ==
    /\ \E dfl \in BOOLEAN : kern = InitK(dfl)
    /\ nbio = 0
    /\ nconf = 0
    /\ ndrain = 0

(* the state a handler leaves behind; when it oopses the kernel stops at   *)
(* the state the handler was entered in                                    *)
Leave(K) == IF Alive(K) THEN K ELSE Oops(kern, K.oops)

(* the values a never-assigned struct fake_device pointer can hold: junk   *)
(* (NULL stands for every pointer that faults) or a live fake_device       *)
UbValues == {NULL} \cup {fd \in FHs : kern.tg[fd].exists}

(* the record kept of a bio once blk_throtl_bio() has returned ret: a bio  *)
(* that went straight on to the driver is known by its flag alone          *)
Returned(bio, ret) ==
    IF ret THEN [bio EXCEPT !.st = "held"]
    ELSE [NewBio EXCEPT !.st = "passed", !.throttled = bio.throttled,
                        !.size = IF bio.at # 0 THEN bio.size ELSE 0,
                        !.at = bio.at]

(* a pending_timer whose time has come *)
TimerDue(s) ==
    kern.sq[s].timer.armed /\ kern.sq[s].timer.expires <= kern.jiffies

(* one jiffy passes; the timers that are due and the dispatch work that is *)
(* queued run before the next one                                          *)
Clock(bound) ==
    /\ Alive(kern)
    /\ kern.jiffies < bound
    /\ \A s \in SQs : ~TimerDue(s)
    /\ \A q \in Queues : ~kern.td[q].work
    /\ kern' = [kern EXCEPT !.jiffies = @ + 1]
    /\ UNCHANGED <<nbio, nconf, ndrain>>

Tick == Clock(MaxJiffies)

(* submit_bio() of the next bio while fewer than max have been submitted *)
SubmitUpTo(max, g, q, rw, size, ub) ==
    LET Ret(r, b) == Leave([r.K EXCEPT !.bio[b] = Returned(r.K.bio[b], r.ret)])
    IN  /\ Alive(kern)
        /\ nbio < max
        /\ kern' = Ret(blk_throtl_bio(
                         [kern EXCEPT !.bio[nbio + 1] =
                            [NewBio EXCEPT !.dir = rw, !.size = size,
                                           !.blkcg = g, !.q = q,
                                           !.at = IF kern.trace THEN kern.jiffies
                                                  ELSE 0]],
                         nbio + 1, ub),
                       nbio + 1)
        /\ nbio' = nbio + 1
        /\ UNCHANGED <<nconf, ndrain>>

SubmitBio(g, q, rw, size, ub) == SubmitUpTo(MaxBios, g, q, rw, size, ub)

TimerFire(s) ==
    /\ Alive(kern)
    /\ TimerDue(s)
    /\ kern' = Leave(throtl_pending_timer_fn(
                       [kern EXCEPT !.sq[s].timer.armed = FALSE], s))
    /\ UNCHANGED <<nbio, nconf, ndrain>>

Worker(q) ==
    /\ Alive(kern)
    /\ kern.td[q].work
    /\ kern' = Leave(blk_throtl_dispatch_work_fn(
                       [kern EXCEPT !.td[q].work = FALSE], q))
    /\ UNCHANGED <<nbio, nconf, ndrain>>

Drain(q) ==
    /\ Alive(kern)
    /\ ndrain < MaxDrain
    /\ kern' = Leave(spin_unlock_irq(blk_throtl_drain(spin_lock_irq(kern, q), q), q))
    /\ ndrain' = ndrain + 1
    /\ UNCHANGED <<nbio, nconf>>

Conf(g, q, file, v) ==
    /\ Alive(kern)
    /\ nconf < MaxConf
    /\ kern' = Leave(tg_set_conf(kern, g, q, file[1], file[2], v))
    /\ nconf' = nconf + 1
    /\ UNCHANGED <<nbio, ndrain>>

FdConf(g, q, fd_id, rw, v) ==
    /\ Alive(kern)
    /\ nconf < MaxConf
    /\ kern' = Leave(tg_fd_set_conf(kern, g, q, fd_id, rw, v))
    /\ nconf' = nconf + 1
    /\ UNCHANGED <<nbio, ndrain>>

Next ==
    \/ Tick
    \/ \E g \in Groups, q \in Queues, rw \in Dirs2, size \in BioSizes, ub \in UbValues :
          SubmitBio(g, q, rw, size, ub)
    \/ \E s \in SQs : TimerFire(s)
    \/ \E q \in Queues : Worker(q)
    \/ \E q \in Queues : Drain(q)
    \/ \E g \in Groups, q \in DevQueues, file \in DevFiles, v \in ConfValues :
          Conf(g, q, file, v)
    \/ \E g \in FdGroups, q \in Queues, fd_id \in FdIds, rw \in Dirs2,
          v \in ConfValues : FdConf(g, q, fd_id, rw, v)

Spec == Init /\ [][Next]_vars

-----------------------------------------------------------------------------
(* Hybrid throttling alone: the cgroup of the fake device submits bios to  *)
(* both queues and writes the hybrid files; no per-device limit is set, so *)
(* the hierarchy mode plays no part and the machine starts on the legacy   *)
(* hierarchy.                                                              *)

InitFd ==
    /\ kern = InitK(FALSE)
    /\ nbio = 0
    /\ nconf = 0
    /\ ndrain = 0

NextFd ==
    \/ Tick
    \/ \E g \in FdGroups, q \in Queues, rw \in Dirs2, size \in BioSizes, ub \in UbValues :
          SubmitBio(g, q, rw, size, ub)
    \/ \E s \in SQs : TimerFire(s)
    \/ \E q \in Queues : Worker(q)
    \/ \E g \in FdGroups, q \in Queues, fd_id \in FdIds, rw \in Dirs2,
          v \in ConfValues : FdConf(g, q, fd_id, rw, v)

SpecFd == InitFd /\ [][NextFd]_vars

(* Hybrid throttling with the queues being drained *)
NextDrain == NextFd \/ \E q \in Queues : Drain(q)

SpecDrain == InitFd /\ [][NextDrain]_vars

(* Per-device throttling alone: both cgroups submit bios of one size to    *)
(* the device and write its six limit files, on either hierarchy.          *)

DevBioSizes == {2}

NextDev ==
    \/ Tick
    \/ \E g \in Groups, q \in DevQueues, rw \in Dirs2, size \in DevBioSizes, ub \in UbValues :
          SubmitBio(g, q, rw, size, ub)
    \/ \E g \in Groups, q \in DevQueues, file \in DevFiles, v \in ConfValues :
          Conf(g, q, file, v)

SpecDev == Init /\ [][NextDev]_vars

(* Per-device and hybrid throttling together: the cgroup of the fake       *)
(* device also writes the limit files of the device, on the legacy         *)
(* hierarchy.                                                              *)
NextMix ==
    \/ Tick
    \/ \E g \in FdGroups, q \in Queues, rw \in Dirs2, size \in BioSizes, ub \in UbValues :
          SubmitBio(g, q, rw, size, ub)
    \/ \E s \in SQs : TimerFire(s)
    \/ \E q \in Queues : Worker(q)
    \/ \E g \in FdGroups, q \in DevQueues, file \in DevFiles, v \in ConfValues :
          Conf(g, q, file, v)
    \/ \E g \in FdGroups, q \in Queues, fd_id \in FdIds, rw \in Dirs2,
          v \in ConfValues : FdConf(g, q, fd_id, rw, v)

SpecMix == InitFd /\ [][NextMix]_vars

(* Hybrid throttling of one queue watched over a longer time: the cgroup   *)
(* of the fake device reads from queue 1 with tracing on, and the clock    *)
(* runs long enough for a window of two slices to pass after a bio was     *)
(* queued.                                                                 *)
RateJiffies == 7

InitRate ==
    /\ kern = [InitK(FALSE) EXCEPT !.trace = TRUE]
    /\ nbio = 0
    /\ nconf = 0
    /\ ndrain = 0

LongTick == Clock(RateJiffies)

NextRate ==
    \/ LongTick
    \/ \E g \in FdGroups, q \in DevQueues, rw \in {READ}, size \in BioSizes,
          ub \in UbValues : SubmitBio(g, q, rw, size, ub)
    \/ \E s \in SQs : TimerFire(s)
    \/ \E q \in Queues : Worker(q)
    \/ \E g \in FdGroups, q \in DevQueues, fd_id \in FdIds, rw \in Dirs2,
          v \in ConfValues : FdConf(g, q, fd_id, rw, v)

SpecRate == InitRate /\ [][NextRate]_vars

(* Hybrid throttling on both queues, traced *)
SpecFdTrace == InitRate /\ [][NextFd]_vars

(* A read limit of 1 MiB/s on the device and reads of 64 KiB, traced: the  *)
(* cgroups write throttle.read_bps_device and submit reads. A bio over    *)
(* the limit never gets as far as a queue here (see QueueOnTg), so no      *)
(* timer is ever armed and no dispatch work is ever queued.                *)
CapValues == {1048576}

CapSizes == {65536}

InitCap ==
    /\ \E dfl \in BOOLEAN : kern = [InitK(dfl) EXCEPT !.trace = TRUE]
    /\ nbio = 0
    /\ nconf = 0
    /\ ndrain = 0

NextCap ==
    \/ LongTick
    \/ \E g \in Groups, q \in DevQueues, rw \in {READ}, size \in CapSizes,
          ub \in UbValues : SubmitBio(g, q, rw, size, ub)
    \/ \E g \in Groups, q \in DevQueues, file \in {<<"bps", READ>>},
          v \in CapValues : Conf(g, q, file, v)

SpecCap == InitCap /\ [][NextCap]_vars

-----------------------------------------------------------------------------
(* Both stages limited: the cgroup has a read limit on device 1 and a      *)
(* hybrid read limit on a fake device that device 1 is a member of, and    *)
(* time runs long enough for a refused bio to be dispatched by the timer.  *)
NextStages ==
    \/ LongTick
    \/ \E g \in FdGroups, q \in DevQueues, size \in BioSizes, ub \in UbValues :
          SubmitBio(g, q, READ, size, ub)
    \/ \E s \in SQs : TimerFire(s)
    \/ \E q \in Queues : Worker(q)
    \/ \E g \in FdGroups, q \in DevQueues : Conf(g, q, <<"bps", READ>>, 20)
    \/ \E g \in FdGroups, q \in DevQueues, fd_id \in FdIds :
          FdConf(g, q, fd_id, READ, 20)

SpecStages == InitFd /\ [][NextStages]_vars

-----------------------------------------------------------------------------
(* A burst on one member throtl_grp: the fake device has a byte limit in   *)
(* both directions; the cgroup submits to the member's queue reads and     *)
(* then writes. In each direction a bio that uses up the bytes of the      *)
(* current slice goes through, and the small bios that follow it in the    *)
(* same slice are refused and queued: more of them than one round of       *)
(* throtl_dispatch_tg() takes, and all within the bytes of the next slice. *)

MaxBurstBios == 12

BurstReads == 8

BurstJiffies == 6

BurstLimit == 1000

BurstMember == FM(1, 7, 1)

(* the direction of the next bio *)
BurstDir == IF nbio < BurstReads THEN READ ELSE WRITE

(* the size of the next bio of direction rw: the bytes of one slice when   *)
(* nothing is charged to the fake device, 1 otherwise                      *)
BurstSizes(rw) ==
    IF kern.tg[FH(1, 7)].bytes_disp[rw] = 0
    THEN {(BurstLimit * throtl_slice) \div HZ} ELSE {1}

InitBurst ==
    /\ kern = [tg_fd_set_conf(tg_fd_set_conf(InitK(FALSE), 1, 1, 7, READ, BurstLimit),
                              1, 1, 7, WRITE, BurstLimit)
                 EXCEPT !.bio = [b \in 1..MaxBurstBios |-> NewBio]]
    /\ nbio = 0
    /\ nconf = 0
    /\ ndrain = 0

NextBurst ==
    \/ Clock(BurstJiffies)
    \/ \E ub \in UbValues, size \in BurstSizes(BurstDir) :
          SubmitUpTo(MaxBurstBios, 1, 1, BurstDir, size, ub)
    \/ \E s \in SQs : TimerFire(s)
    \/ \E q \in Queues : Worker(q)

SpecBurst == InitBurst /\ [][NextBurst]_vars

-----------------------------------------------------------------------------
(* A flood of reads on one member throtl_grp: as in the burst, but reads   *)
(* only, all submitted within the first slice, and more of them than one   *)
(* call of throtl_select_dispatch() takes.                                 *)

MaxFloodBios == 43

FloodJiffies == 4

InitFlood ==
    /\ kern = [tg_fd_set_conf(InitK(FALSE), 1, 1, 7, READ, BurstLimit)
                 EXCEPT !.bio = [b \in 1..MaxFloodBios |-> NewBio]]
    /\ nbio = 0
    /\ nconf = 0
    /\ ndrain = 0

NextFlood ==
    \/ Clock(FloodJiffies)
    \/ \E ub \in UbValues, size \in BurstSizes(READ) :
          /\ kern.jiffies < 1 + throtl_slice
          /\ SubmitUpTo(MaxFloodBios, 1, 1, READ, size, ub)
    \/ \E s \in SQs : TimerFire(s)
    \/ \E q \in Queues : Worker(q)

SpecFlood == InitFlood /\ [][NextFlood]_vars

-----------------------------------------------------------------------------
(* Two fake devices of one cgroup with the same member queue, one with a   *)
(* write limit and one with a read limit: the writes that the first        *)
(* refuses wait on its member throtl_grp, the reads that the second        *)
(* refuses on the second's member, and both members wait in the            *)
(* pending_tree of the queue's throtl_data.                                *)

MaxOrderBios == 3

OrderJiffies == 6

OrderSizes == {3, 5}

InitOrder ==
    /\ kern = [tg_fd_set_conf(tg_fd_set_conf(InitK(FALSE), 1, 1, 7, WRITE, 20),
                              1, 1, 8, READ, 20)
                 EXCEPT !.bio = [b \in 1..MaxOrderBios |-> NewBio]]
    /\ nbio = 0
    /\ nconf = 0
    /\ ndrain = 0

NextOrder ==
    \/ Clock(OrderJiffies)
    \/ \E rw \in Dirs2, size \in OrderSizes, ub \in UbValues :
          SubmitUpTo(MaxOrderBios, 1, 1, rw, size, ub)
    \/ \E s \in SQs : TimerFire(s)
    \/ \E q \in Queues : Worker(q)

SpecOrder == InitOrder /\ [][NextOrder]_vars

(* A queue going away: blk_cleanup_queue() marks the queue dying and       *)
(* bypassing before it drains it, and bios can still reach blk_throtl_bio()*)
(* in between. The limit files of the device are written before that       *)
(* (blkg_conf_prep() fails on a bypassing queue); the hybrid files can     *)
(* still be written, blkg_fd_conf_prep() has no such test.                 *)
MarkDying(q) ==
    /\ Alive(kern)
    /\ ~kern.td[q].dying
    /\ kern' = [kern EXCEPT !.td[q].dying = TRUE]
    /\ UNCHANGED <<nbio, nconf, ndrain>>

NextDying ==
    \/ Tick
    \/ \E g \in Groups, q \in DevQueues, size \in BioSizes, ub \in UbValues :
          SubmitBio(g, q, READ, size, ub)
    \/ \E s \in SQs : TimerFire(s)
    \/ \E q \in Queues : Worker(q)
    \/ \E g \in FdGroups, q \in DevQueues :
          ~kern.td[q].dying /\ Conf(g, q, <<"bps", READ>>, 20)
    \/ \E g \in FdGroups, q \in DevQueues, fd_id \in FdIds :
          FdConf(g, q, fd_id, READ, 20)
    \/ \E q \in DevQueues : MarkDying(q)

SpecDying == InitFd /\ [][NextDying]_vars

-----------------------------------------------------------------------------
(* Byte and io limits together on one device: 40 bytes per second are 4    *)
(* bytes per slice, 20 ios per second are 2 ios per slice, so two reads of *)
(* 2 bytes use up both allowances of a slice; 5 per second is less than    *)
(* one byte or one io per slice.                                           *)
WaitValues == {5, 20, 40}

NextWait ==
    \/ Tick
    \/ \E g \in FdGroups, q \in DevQueues, rw \in Dirs2, size \in DevBioSizes,
          ub \in UbValues : SubmitBio(g, q, rw, size, ub)
    \/ \E g \in FdGroups, q \in DevQueues, file \in DevFiles, v \in WaitValues :
          Conf(g, q, file, v)

SpecWait == Init /\ [][NextWait]_vars

-----------------------------------------------------------------------------
(* The text written to a throttle file. parsed is FALSE when sscanf() does *)
(* not find every field; disk and part are what get_gendisk() answers for  *)
(* the MAJOR:MINOR of the line: disk 0 when there is no such device, else  *)
(* the queue of the whole disk and the partition number.                   *)

EINVAL == 22

Lines == [parsed : BOOLEAN, disk : {0} \cup DevQueues, part : {0, 1}]

(* tg_set_conf() from the line on: blkg_conf_prep() returns -EINVAL        *)
(* before it takes any lock or looks up any blkg                           *)
tg_set_conf_line(K, g, line, field, rw, v) ==
    IF ~line.parsed THEN [K EXCEPT !.ret = -EINVAL]
    ELSE IF line.disk = 0 THEN [K EXCEPT !.ret = -EINVAL]
    ELSE IF line.part # 0 THEN [K EXCEPT !.ret = -EINVAL]
    ELSE [tg_set_conf(K, g, line.disk, field, rw, v) EXCEPT !.ret = 0]

(* tg_fd_set_conf() from the line on: blkg_fd_conf_prep() does not look at *)
(* the partition number                                                    *)
tg_fd_set_conf_line(K, g, line, fd_id, rw, v) ==
    IF ~line.parsed THEN [K EXCEPT !.ret = -EINVAL]
    ELSE IF line.disk = 0 THEN [K EXCEPT !.ret = -EINVAL]
    ELSE [tg_fd_set_conf(K, g, line.disk, fd_id, rw, v) EXCEPT !.ret = 0]

ConfLine(g, line, file, v) ==
    /\ Alive(kern)
    /\ nconf < MaxConf
    /\ kern' = Leave(tg_set_conf_line(kern, g, line, file[1], file[2], v))
    /\ nconf' = nconf + 1
    /\ UNCHANGED <<nbio, ndrain>>

FdConfLine(g, line, fd_id, rw, v) ==
    /\ Alive(kern)
    /\ nconf < MaxConf
    /\ kern' = Leave(tg_fd_set_conf_line(kern, g, line, fd_id, rw, v))
    /\ nconf' = nconf + 1
    /\ UNCHANGED <<nbio, ndrain>>

NextLine ==
    \/ Tick
    \/ \E g \in Groups, line \in Lines, file \in DevFiles, v \in ConfValues :
          ConfLine(g, line, file, v)
    \/ \E g \in FdGroups, line \in Lines, fd_id \in FdIds, rw \in Dirs2,
          v \in ConfValues : FdConfLine(g, line, fd_id, rw, v)

SpecLine == Init /\ [][NextLine]_vars

-----------------------------------------------------------------------------
(* The queued[READ] list of a member throtl_grp alone, fed from its two    *)
(* sources: bios of the cgroup's throtl_grp that the fake device rejected  *)
(* arrive in that throtl_grp's qnode_on_parent (throtl_add_bio_tg()), bios *)
(* queued by throtl_add_bio_fd_tg() in the member's qnode_on_self; bios    *)
(* are popped one at a time as the dispatch loop does. Bios are numbered   *)
(* in the order they are added. kern.popped is the sequence of bios popped *)
(* since the last add, kern.snap the bio FIFOs of the qnodes on the list,  *)
(* in list order, as the last add left them.                               *)

MaxQnodeBios == 6

QnodeMember == FM(1, 7, 1)

QnodeList == LHead(QnodeMember, READ)

QnodeSources == {QN(PG(1, 1), "parent", READ), QN(QnodeMember, "self", READ)}

RECURSIVE ListQnodes(_, _, _, _)
(* the qnodes on the list of head h from node n on, in list order *)
ListQnodes(K, h, n, left) ==
    IF n = h \/ n = NNULL \/ left = 0 THEN <<>>
    ELSE <<n>> \o ListQnodes(K, h, K.ln[n].next, left - 1)

RECURSIVE Fifos(_, _)
(* the bio FIFOs of a sequence of qnodes *)
Fifos(K, qns) ==
    IF qns = <<>> THEN <<>> ELSE <<K.qb[Head(qns)]>> \o Fifos(K, Tail(qns))

InitQnode ==
    /\ kern = tg_fd_set_conf(blkg_lookup_create(InitK(FALSE), 1, 1), 1, 1, 7, READ, 20)
    /\ nbio = 0
    /\ nconf = 0
    /\ ndrain = 0

QnodeAdd(qn) ==
    LET Snap(K) ==
          [K EXCEPT !.popped = <<>>,
                    !.snap = Fifos(K, ListQnodes(K, QnodeList, K.ln[QnodeList].next,
                                                 Cardinality(QnodeSources)))]
    IN  /\ Alive(kern)
        /\ nbio < MaxQnodeBios
        /\ kern' = Leave(Snap(IF qn[2] = "self"
                              THEN throtl_qnode_add_bio_withoutblkg(kern, nbio + 1, qn,
                                                                    QnodeList)
                              ELSE throtl_qnode_add_bio(kern, nbio + 1, qn, QnodeList)))
        /\ nbio' = nbio + 1
        /\ UNCHANGED <<nconf, ndrain>>

QnodePop(want_put) ==
    LET Put(r) ==
          [(IF r.put # NULL /\ ~r.K.tg[r.put].fake THEN blkg_put(r.K, r.put) ELSE r.K)
             EXCEPT !.popped = Append(@, r.bio)]
    IN  /\ Alive(kern)
        /\ ~list_empty(kern, QnodeList)
        /\ kern' = Leave(Put(throtl_pop_queued(kern, QnodeList, want_put)))
        /\ UNCHANGED <<nbio, nconf, ndrain>>

NextQnode ==
    \/ \E qn \in QnodeSources : QnodeAdd(qn)
    \/ \E want_put \in BOOLEAN : QnodePop(want_put)

SpecQnode == InitQnode /\ [][NextQnode]_vars

-----------------------------------------------------------------------------
(* What an observer of the queues sees                                     *)

RECURSIVE ListWalk(_, _, _, _)
(* list_for_each() from head h: the nodes met by following next pointers *)
ListWalk(K, h, n, seen) ==
    IF n = h \/ n = NNULL \/ n \in seen THEN seen
    ELSE ListWalk(K, h, K.ln[n].next, seen \cup {n})

(* the qnodes linked into some queued[] list of a service queue *)
LinkedQnodes(K) ==
    QNs \cap UNION {ListWalk(K, h, K.ln[h].next, {}) : h \in Heads}

(* the places <<qnode, index>> of bio b in the bio_lists of linked qnodes *)
HeldIn(K, b) ==
    UNION {{<<qn, i>> : i \in {j \in DOMAIN K.qb[qn] : K.qb[qn][j] = b}} :
           qn \in LinkedQnodes(K)}

(* the service queues on whose queued[] lists bio b waits *)
QueuedAt(K, b) ==
    {h[1] : h \in {x \in Heads :
                     \E qn \in QNs \cap ListWalk(K, x, K.ln[x].next, {}) :
                        \E i \in DOMAIN K.qb[qn] : K.qb[qn][i] = b}}

(* bio b waits on a throtl_grp (not yet on a device's root queue) *)
OnTg(K, b) == K.bio[b].st = "held" /\ QueuedAt(K, b) \cap TGs # {}

(* bio b has reached a device's root queue or has been resubmitted *)
AtRoot(K, b) == K.bio[b].st = "issued" \/ QueuedAt(K, b) \cap TDs # {}

Bios == 1..MaxBios

Held(b) == kern.bio[b].st = "held"

-----------------------------------------------------------------------------
(* C1: bio conservation. Every bio that blk_throtl_bio() kept (returned    *)
(* true for) and that has not been resubmitted sits in exactly one place   *)
(* of exactly one qnode FIFO linked into a queued[] list, and no bio is    *)
(* resubmitted more than once.                                             *)
C1_BioConservation ==
    \A b \in Bios :
        /\ Held(b) => Cardinality(HeldIn(kern, b)) = 1
        /\ kern.bio[b].nissued <= 1

-----------------------------------------------------------------------------
(* the machine has come to rest: it has stopped on an oops, or the clock   *)
(* stands at its bound with no timer due and no dispatch work queued       *)
AtRest ==
    \/ ~Alive(kern)
    \/ /\ kern.jiffies = MaxJiffies
       /\ \A s \in SQs : ~TimerDue(s)
       /\ \A q \in Queues : ~kern.td[q].work

(* bio b is queued and a pending timer is armed for a time past the bound *)
WaitsBeyond(b) ==
    /\ HeldIn(kern, b) # {}
    /\ \E s \in SQs : kern.sq[s].timer.armed /\ kern.sq[s].timer.expires > MaxJiffies

(* C2: liveness, in the form a finite run can refute. With time advancing, *)
(* due timers firing and queued dispatch work running until the machine    *)
(* is at rest, every bio that blk_throtl_bio() kept has been handed back   *)
(* to the block layer, unless it is still queued behind a timer armed for  *)
(* a time past the bound of the clock.                                     *)
C2_EventuallyResubmitted ==
    AtRest => \A b \in Bios : Held(b) => WaitsBeyond(b)

-----------------------------------------------------------------------------
(* C3: blk_throtl_bio() returns true exactly when the call has left the    *)
(* bio on a queue of some throtl_grp; when it returns false the bio is on  *)
(* no queue and leaves with REQ_THROTTLED clear.                           *)
C3_TrueIffQueued ==
    [][\A b \in Bios :
         (nbio = b - 1 /\ nbio' = b /\ Alive(kern')) =>
            /\ (kern'.bio[b].st = "held") <=> (HeldIn(kern', b) # {})
            /\ (kern'.bio[b].st # "held") =>
                  (kern'.bio[b].st = "passed" /\ ~kern'.bio[b].throttled)]_vars

(* one bio was kept and is queued, another was charged on its way and let  *)
(* through                                                                 *)
C3_Witness ==
    \E b1, b2 \in Bios :
        /\ Held(b1) /\ HeldIn(kern, b1) # {}
        /\ kern.bio[b2].st = "passed" /\ ~kern.bio[b2].throttled
        /\ \E t \in TGs : kern.tg[t].io_disp[kern.bio[b1].dir] > 1

-----------------------------------------------------------------------------
(* C4: FIFO per (throtl_grp, direction). Bios are numbered in arrival      *)
(* order, and bios of one cgroup to one queue enter the same throtl_grps.  *)
(* A bio that arrives while an earlier bio of its direction is queued on   *)
(* its throtl_grp does not pass directly, and of two bios queued on one    *)
(* throtl_grp in one direction the later never reaches the root queue      *)
(* while the earlier is still waiting on the throtl_grp.                   *)
C4_Fifo ==
    [][/\ \A g \in Groups, q \in Queues, rw \in Dirs2, size \in BioSizes,
             ub \in UbValues :
             (nbio' = nbio + 1 /\ SubmitBio(g, q, rw, size, ub)
              /\ kern'.bio[nbio'].st = "passed") =>
                ~\E b1 \in Bios : /\ OnTg(kern, b1)
                                  /\ kern.bio[b1].blkcg = g
                                  /\ kern.bio[b1].q = q
                                  /\ kern.bio[b1].dir = rw
       /\ \A b1, b2 \in Bios :
             (/\ b1 < b2
              /\ OnTg(kern, b1) /\ OnTg(kern, b2)
              /\ kern.bio[b1].blkcg = kern.bio[b2].blkcg
              /\ kern.bio[b1].q = kern.bio[b2].q
              /\ kern.bio[b1].dir = kern.bio[b2].dir
              /\ AtRoot(kern', b2)) => AtRoot(kern', b1)]_vars

-----------------------------------------------------------------------------
RECURSIVE BytesOut(_, _, _)
(* the bytes of the bios 1..b that went on to the driver, passed directly  *)
(* or dispatched, at a traced time from jiffy from on                      *)
BytesOut(K, from, b) ==
    IF b = 0 THEN 0
    ELSE (IF K.bio[b].st \in {"passed", "issued"} /\ K.bio[b].at >= from
          THEN K.bio[b].size ELSE 0) + BytesOut(K, from, b - 1)

(* the bytes a bps limit allows in the slice of direction rw of throtl_grp *)
(* t up to now: bps * roundup(elapsed, throtl_slice) / HZ                  *)
SliceAllowance(K, t, rw) ==
    (K.tg[t].bps[rw]
     * roundup(IF K.jiffies = K.tg[t].slice_start[rw] THEN throtl_slice
               ELSE K.jiffies - K.tg[t].slice_start[rw], throtl_slice)) \div HZ

-----------------------------------------------------------------------------
-----------------------------------------------------------------------------
(* the request queue a throtl_grp hangs under *)
TgQueue(t) == IF t[1] = "fm" THEN t[4] ELSE t[3]

(* the throtl_grps rooted at queue q: those of its blkgs and the members   *)
(* of fake devices that stand for q                                        *)
RootedAt(q) == {t \in PGs \cup FMs : TgQueue(t) = q}

(* C7: drain. When blk_throtl_drain(q) returns, every bio that was queued  *)
(* on a throtl_grp rooted at q has been resubmitted exactly once; every    *)
(* such throtl_grp has no bio queued in either direction and is not        *)
(* PENDING; the queued lists of the root service queue are empty and       *)
(* td->nr_queued is 0 in both directions.                                  *)
C7_Drain ==
    [][\A q \in Queues :
          (ndrain' = ndrain + 1 /\ Drain(q)) =>
             /\ Alive(kern')
             /\ \A b \in Bios :
                   (kern.bio[b].st = "held"
                    /\ QueuedAt(kern, b) \cap RootedAt(q) # {}) =>
                      (kern'.bio[b].st = "issued" /\ kern'.bio[b].nissued = 1)
             /\ \A t \in RootedAt(q) :
                   /\ kern'.sq[t].nr_queued[READ] = 0
                   /\ kern'.sq[t].nr_queued[WRITE] = 0
                   /\ "PENDING" \notin kern'.tg[t].flags
             /\ list_empty(kern', LHead(TD(q), READ))
             /\ list_empty(kern', LHead(TD(q), WRITE))
             /\ kern'.td[q].nr_queued[READ] = 0
             /\ kern'.td[q].nr_queued[WRITE] = 0]_vars

-----------------------------------------------------------------------------
RECURSIVE LimitOnPath(_, _, _)
(* throtl_grp t or one of the throtl_grps above it, following parent_sq up *)
(* to the root service queue of the device, has a limit on direction rw    *)
LimitOnPath(K, t, rw) ==
    IF t = NULL THEN FALSE
    ELSE \/ K.tg[t].bps[rw] # NoLimit
         \/ K.tg[t].iops[rw] # NoLimit
         \/ LimitOnPath(K, sq_to_tg(K, K.sq[t].parent_sq), rw)

(* C8: has_rules correctness. In every reachable state, for every          *)
(* throtl_grp and every direction of READ, WRITE and RANDW, has_rules is   *)
(* true exactly when the throtl_grp itself or an ancestor on its path to   *)
(* the device root has a bps or an iops limit on that direction.           *)
C8_HasRules ==
    \A t \in TGs, rw \in Dirs3 :
        kern.tg[t].exists => (kern.tg[t].has_rules[rw] <=> LimitOnPath(kern, t, rw))

(* on the unified hierarchy a child without a limit of its own has rules   *)
(* through its parent, after two configuration writes                      *)
C8_Witness ==
    \E q \in Queues, rw \in Dirs3 :
        /\ kern.on_dfl /\ nconf = 2
        /\ kern.tg[PG(1, q)].exists /\ kern.tg[PG(1, q)].has_rules[rw]
        /\ kern.tg[PG(1, q)].bps[rw] = NoLimit /\ kern.tg[PG(1, q)].iops[rw] = NoLimit
        /\ kern.sq[PG(1, q)].parent_sq = PG(0, q)

-----------------------------------------------------------------------------
(* C9: a limit change restarts every slice. After a successful write to a  *)
(* per-device throttle file of a throtl_grp, for each direction of READ,   *)
(* WRITE and RANDW the throtl_grp has bytes_disp = 0, io_disp = 0,         *)
(* slice_start = jiffies and slice_end = jiffies + throtl_slice.           *)
C9_RestartsEverySlice ==
    [][\A g \in Groups, q \in DevQueues, file \in DevFiles, v \in ConfValues :
          (nconf' = nconf + 1 /\ Conf(g, q, file, v) /\ Alive(kern')) =>
             \A rw \in Dirs3 :
                /\ kern'.tg[PG(g, q)].bytes_disp[rw] = 0
                /\ kern'.tg[PG(g, q)].io_disp[rw] = 0
                /\ kern'.tg[PG(g, q)].slice_start[rw] = kern'.jiffies
                /\ kern'.tg[PG(g, q)].slice_end[rw] = kern'.jiffies + throtl_slice]_vars

-----------------------------------------------------------------------------
(* C10: configuration writes are made under the queue locks. Every store   *)
(* a configuration write makes to the limits, has_rules, slices or         *)
(* dispatch counters of a throtl_grp, through a per-device file or a       *)
(* hybrid file, is made while the queue_lock of that throtl_grp's device   *)
(* is held: no queue has been written to without its lock.                 *)
C10_ConfUnderQueueLock == kern.unlocked = {}

-----------------------------------------------------------------------------
(* the lines blkg_conf_prep() is to refuse *)
InvalidLine(line) == ~line.parsed \/ line.disk = 0 \/ line.part # 0

(* C11: a write to a per-device or hybrid throttle file whose line does    *)
(* not parse, names no existing device or names a partition returns        *)
(* -EINVAL and changes nothing: no limit, no throtl_grp, no fake device    *)
(* and no fake-device member.                                              *)
C11_InvalidRejected ==
    [][\A line \in {l \in Lines : InvalidLine(l)} :
         /\ \A g \in Groups, file \in DevFiles, v \in ConfValues :
               ConfLine(g, line, file, v) => kern' = [kern EXCEPT !.ret = -EINVAL]
         /\ \A g \in FdGroups, fd_id \in FdIds, rw \in Dirs2, v \in ConfValues :
               FdConfLine(g, line, fd_id, rw, v)
                 => kern' = [kern EXCEPT !.ret = -EINVAL]]_vars

-----------------------------------------------------------------------------
(* C12: hybrid configuration is idempotent on membership. After every      *)
(* step a blkcg holds at most one fake device per FD_ID and a fake device  *)
(* at most one member per queue; a write to a hybrid file adds a fake      *)
(* device only when the blkcg has none of that FD_ID yet, and adds exactly *)
(* one member when the fake device has none for the queue yet and none     *)
(* otherwise.                                                              *)
C12_MembershipIdempotent ==
    [][
        /\ \A g \in FdGroups :
            \A i, j \in 1..Len(kern'.fd_head[g]) :
               kern'.fd_head[g][i] = kern'.fd_head[g][j] => i = j
        /\ \A fd \in FHs :
            \A i, j \in 1..Len(kern'.fd_mem[fd]) :
               kern'.fd_mem[fd][i][4] = kern'.fd_mem[fd][j][4] => i = j
        /\ \A g \in FdGroups, q \in Queues, fd_id \in FdIds, rw \in Dirs2,
              v \in ConfValues :
            (FdConf(g, q, fd_id, rw, v) /\ Alive(kern'))
              => /\ Len(kern'.fd_head[g])
                      = Len(kern.fd_head[g])
                        + (IF \E i \in 1..Len(kern.fd_head[g]) :
                                kern.fd_head[g][i] = FH(g, fd_id)
                           THEN 0 ELSE 1)
                 /\ Len(kern'.fd_mem[FH(g, fd_id)])
                      = Len(kern.fd_mem[FH(g, fd_id)])
                        + (IF queue_in_fake_d(kern, FH(g, fd_id), q) THEN 0 ELSE 1)
                 /\ \A fd \in FHs \ {FH(g, fd_id)} :
                      kern'.fd_mem[fd] = kern.fd_mem[fd]
      ]_vars

(* a second write naming the same (FD_ID, device) pair has been made *)
C12_Witness ==
    /\ Alive(kern)
    /\ nconf = 2
    /\ \E g \in FdGroups, i \in FdIds :
         Len(kern.fd_head[g]) = 1 /\ Len(kern.fd_mem[FH(g, i)]) = 1

-----------------------------------------------------------------------------
(* C13: token-bucket bound after trim. Whenever throtl_trim_slice()        *)
(* returns for a throtl_grp and a direction (READ, WRITE or RANDW) with a  *)
(* finite bps limit, bytes_disp[rw] is at most bps[rw] * (slice_end[rw] -  *)
(* slice_start[rw]) / HZ: no return of the function has been logged with   *)
(* the bucket over that bound.                                             *)
C13_TrimBound == kern.trim_over = {}

-----------------------------------------------------------------------------
(* the throtl_grps linked into the pending_tree of service queue s: those  *)
(* the tree reaches whose rb_node is not RB_EMPTY_NODE                     *)
LinkedIn(K, s) ==
    {K.sq[s].tree[i] : i \in {j \in 1..Len(K.sq[s].tree) :
                                 K.tg[K.sq[s].tree[j]].rb = "linked"}}

(* C14: pending count. In every reachable state and for every service     *)
(* queue, nr_pending equals the number of throtl_grps linked into the      *)
(* queue's pending_tree, also after writes to the hybrid files.            *)
C14_PendingCount ==
    \A s \in SQs : kern.sq[s].nr_pending = Cardinality(LinkedIn(kern, s))

-----------------------------------------------------------------------------
(* C15: minimum dispatch time. In every reachable state in which the       *)
(* pending_tree of a service queue is not empty, first_pending_disptime of *)
(* the queue equals the disptime of the leftmost throtl_grp of the tree,   *)
(* the least disptime in it.                                               *)
C15_MinDisptime ==
    \A s \in SQs :
       kern.sq[s].tree # <<>>
         => kern.sq[s].first_pending_disptime
              = kern.tg[Head(kern.sq[s].tree)].disptime

-----------------------------------------------------------------------------
(* C16: the charge of a fake device is identical on all its throtl_grps.   *)
(* Every charge of a bio to a fake device, when the bio passes the         *)
(* fake-device stage of blk_throtl_bio() and when it is dispatched from a  *)
(* member in tg_dispatch_one_bio(), adds the bio's size to bytes_disp and  *)
(* 1 to io_disp, for the bio's direction and for RANDW, on the header and  *)
(* on every member: no charge has been traced that did otherwise.          *)
C16_ChargeOnAllMembers == kern.charge_odd = {}

(* a fake device with two members has been charged for a bio that passed   *)
(* the fake-device stage and for a bio dispatched from a member            *)
C16_Witness ==
    /\ Alive(kern)
    /\ \E fd \in FHs :
         /\ Len(kern.fd_mem[fd]) = 2
         /\ kern.tg[fd].io_disp[RANDW] = 2
         /\ \A i \in 1..2 : kern.tg[kern.fd_mem[fd][i]].io_disp[RANDW] = 2
    /\ \E b \in 1..nbio : kern.bio[b].st = "passed"
    /\ \E b \in 1..nbio : kern.bio[b].st = "issued"

-----------------------------------------------------------------------------
(* the outcome of the physical stage of blk_throtl_bio() for a bio, had it *)
(* been submitted in state K as bio b: the result of the climb from the    *)
(* bio's throtl_grp, with brk = TRUE and tg the throtl_grp that has bios   *)
(* queued in the bio's direction or whose tg_may_dispatch() rejects it     *)
PhysicalStage(K, b, g, q, rw, size) ==
    LET Submitted(K0) ==
          IF RcuWithoutLimit(K0, g, q, rw)
          THEN [K |-> K0, brk |-> FALSE, tg |-> NULL, qn |-> NNULL]
          ELSE Climb(blkg_lookup_create(K0, g, q), b, PG(g, q), NNULL)
    IN  Submitted([K EXCEPT !.bio[b] = [NewBio EXCEPT !.dir = rw, !.size = size,
                                                      !.blkcg = g, !.q = q]])

(* C17: a bio rejected by the physical stage is queued on the physical     *)
(* throtl_grp. When blk_throtl_bio() finds that the bio's throtl_grp, or   *)
(* an ancestor reached while climbing, has bios queued in the bio's        *)
(* direction or that tg_may_dispatch() rejects the bio there, the bio is   *)
(* appended to that throtl_grp's own service queue (through qnode_on_self  *)
(* of the bio's throtl_grp or qnode_on_parent of the child climbed from),  *)
(* nr_queued[dir] of that throtl_grp goes up by one, the throtl_grp is     *)
(* left PENDING and the function returns true, with or without fake        *)
(* devices in the group.                                                   *)
C17_QueuedOnPhysicalTg ==
    [][\A g \in Groups, q \in Queues, rw \in Dirs2, size \in BioSizes \cup DevBioSizes,
          ub \in {NULL} \cup FHs :
         LET Queued(c, b) ==
               (Alive(c.K) /\ c.brk)
                 => /\ Alive(kern')
                    /\ kern'.bio[b].st = "held"
                    /\ QueuedAt(kern', b) = {c.tg}
                    /\ HeldIn(kern', b)
                         = {<<IF c.qn = NNULL THEN QN(c.tg, "self", rw) ELSE c.qn,
                              Len(kern'.qb[IF c.qn = NNULL THEN QN(c.tg, "self", rw)
                                           ELSE c.qn])>>}
                    /\ kern'.sq[c.tg].nr_queued[rw] = kern.sq[c.tg].nr_queued[rw] + 1
                    /\ "PENDING" \in kern'.tg[c.tg].flags
         IN  SubmitBio(g, q, rw, size, ub)
               => Queued(PhysicalStage(kern, nbio + 1, g, q, rw, size), nbio + 1)
      ]_vars

-----------------------------------------------------------------------------
(* the outcome of the fake-device stage of blk_throtl_bio() for a bio that *)
(* left the physical stage in the state c: the result of the walk over the *)
(* fake devices of its blkcg, with brk = TRUE and fd the fake device that  *)
(* holds the bio's queue, has rules for its direction and rejects it       *)
FakeDeviceStage(c, b, g, q) ==
    IF Alive(c.K) /\ ~c.brk /\ c.tg = NULL /\ c.qn # NNULL
       /\ FakeDevs(c.K, g) # <<>>
    THEN FdWalk(c.K, b, q, FakeDevs(c.K, g), 1)
    ELSE [K |-> c.K, brk |-> FALSE, fd |-> NULL]

(* C18: a bio rejected by the fake-device stage is queued on the member    *)
(* throtl_grp. When a bio passes the physical stage and a fake device of   *)
(* its group that contains the bio's queue and has rules for the bio's     *)
(* direction rejects it, the bio is appended to the FIFO of                *)
(* qnode_on_self[dir] of that fake device's member throtl_grp for the      *)
(* queue, nr_queued[dir] of the member goes up by one and the aggregate    *)
(* nr_queued[dir] of the header goes up by one.                            *)
C18_QueuedOnMemberTg ==
    [][\A g \in FdGroups, q \in Queues, rw \in Dirs2, size \in BioSizes,
          ub \in {NULL} \cup FHs :
         LET m(fd) == FM(fd[2], fd[3], q)
             Queued(w, b) ==
               (Alive(w.K) /\ w.brk)
                 => /\ Alive(kern')
                    /\ kern'.bio[b].st = "held"
                    /\ QueuedAt(kern', b) = {m(w.fd)}
                    /\ HeldIn(kern', b)
                         = {<<QN(m(w.fd), "self", rw),
                              Len(kern'.qb[QN(m(w.fd), "self", rw)])>>}
                    /\ kern'.sq[m(w.fd)].nr_queued[rw]
                         = w.K.sq[m(w.fd)].nr_queued[rw] + 1
                    /\ kern'.sq[w.fd].nr_queued[rw] = w.K.sq[w.fd].nr_queued[rw] + 1
         IN  SubmitBio(g, q, rw, size, ub)
               => Queued(FakeDeviceStage(
                           PhysicalStage(kern, nbio + 1, g, q, rw, size),
                           nbio + 1, g, q),
                         nbio + 1)
      ]_vars

-----------------------------------------------------------------------------
(* the bios of FIFO f among those popped so far, in the order popped *)
PoppedOf(K, f) ==
    SelectSeq(K.popped, LAMBDA b : \E i \in 1..Len(f) : f[i] = b)

(* the least length of the FIFOs fs *)
LeastLen(fs) ==
    IF fs = <<>> THEN 0
    ELSE CHOOSE n \in 0..MaxQnodeBios :
           /\ \A i \in 1..Len(fs) : Len(fs[i]) >= n
           /\ \E i \in 1..Len(fs) : Len(fs[i]) = n

(* C19: round-robin across sources. throtl_pop_queued() on a queued list   *)
(* that is not empty returns the head bio of the head qnode; the qnode is  *)
(* moved to the tail of the list if it still has bios and is unlinked      *)
(* otherwise. Hence with k qnodes on the list that hold at least m bios    *)
(* each, the first k*m pops take one bio from each qnode in turn, and the  *)
(* bios of one qnode come out in the order they were added.                *)
C19_RoundRobin ==
    [][
        /\ (\E want_put \in BOOLEAN : QnodePop(want_put))
             => LET Moved(qns, rest) ==
                      /\ Alive(kern')
                      /\ kern'.popped = Append(kern.popped, Head(kern.qb[Head(qns)]))
                      /\ kern'.qb[Head(qns)] = Tail(kern.qb[Head(qns)])
                      /\ rest = IF Len(kern.qb[Head(qns)]) > 1
                                THEN Tail(qns) \o <<Head(qns)>> ELSE Tail(qns)
                IN  Moved(ListQnodes(kern, QnodeList, kern.ln[QnodeList].next,
                                     Cardinality(QnodeSources)),
                          ListQnodes(kern', QnodeList, kern'.ln[QnodeList].next,
                                     Cardinality(QnodeSources)))
        /\ \A i \in 1..Len(kern'.popped) :
              i <= Len(kern'.snap) * LeastLen(kern'.snap)
                => kern'.popped[i]
                     = kern'.snap[((i - 1) % Len(kern'.snap)) + 1]
                                 [((i - 1) \div Len(kern'.snap)) + 1]
        /\ \A j \in 1..Len(kern'.snap) :
              PoppedOf(kern', kern'.snap[j])
                = SubSeq(kern'.snap[j], 1, Len(PoppedOf(kern', kern'.snap[j])))
      ]_vars

(* two qnodes that held at least two bios each have been popped twice each *)
C19_Witness ==
    /\ Alive(kern)
    /\ Len(kern.snap) = 2
    /\ LeastLen(kern.snap) >= 2
    /\ Len(kern.snap[1]) # Len(kern.snap[2])
    /\ Len(kern.popped) >= 4

-----------------------------------------------------------------------------
(* C20: PENDING flag and tree linkage. In every reachable state a          *)
(* throtl_grp has THROTL_TG_PENDING set if and only if its rb_node is      *)
(* linked into the pending_tree of its service queue's parent_sq, and it   *)
(* is linked into the pending_tree of no other service queue.              *)
C20_PendingIffLinked ==
    \A t \in TGs :
       /\ ("PENDING" \in kern.tg[t].flags)
             <=> /\ kern.sq[t].parent_sq \in SQs
                 /\ t \in LinkedIn(kern, kern.sq[t].parent_sq)
       /\ \A s \in SQs \ {kern.sq[t].parent_sq} : t \notin LinkedIn(kern, s)

-----------------------------------------------------------------------------
(* the places <<qnode, index>> of the bios held in the qnodes linked into  *)
(* the list with head h                                                    *)
QueuedBios(K, h) ==
    UNION {{<<qn, i>> : i \in DOMAIN K.qb[qn]} :
           qn \in QNs \cap ListWalk(K, h, K.ln[h].next, {})}

-----------------------------------------------------------------------------
(* C22: update_fd_queuenr clamps downward to the member sum. Applied to a  *)
(* fake device in any reachable state (blk_throtl_bio calls it on every    *)
(* fake device of the cgroup it walks), it leaves in the header's          *)
(* nr_queued[dir], for READ and WRITE independently, the minimum of the    *)
(* previous value and the sum of the members' nr_queued[dir].              *)
C22_ClampToMemberSum ==
    \A fd \in FHs :
       (Alive(kern) /\ kern.tg[fd].exists) =>
          LET After(K2) ==
                \A rw \in Dirs2 :
                   K2.sq[fd].nr_queued[rw]
                     = Min(kern.sq[fd].nr_queued[rw],
                           SumQueued(kern, Members(kern, fd), rw, 1))
          IN  After(update_fd_queuenr(kern, fd))

-----------------------------------------------------------------------------
(* C23: a fake-device limit update propagates to all members. After a      *)
(* successful write to a hybrid file of fake device fd, every member has   *)
(* the header's bps, iops and has_rules in each of READ, WRITE and RANDW,  *)
(* and the header and every member have a new slice in each of the three   *)
(* directions: bytes_disp = io_disp = 0, slice_start = now, slice_end =    *)
(* now + throtl_slice.                                                     *)
C23_LimitPropagates ==
    [][\A g \in FdGroups, q \in Queues, fd_id \in FdIds, dir \in Dirs2,
         v \in ConfValues :
          (nconf' = nconf + 1 /\ FdConf(g, q, fd_id, dir, v) /\ Alive(kern')) =>
             \A rw \in Dirs3 :
                /\ \A i \in 1..Len(Members(kern', FH(g, fd_id))) :
                      LET Same(h, m) ==
                            /\ m.bps[rw] = h.bps[rw]
                            /\ m.iops[rw] = h.iops[rw]
                            /\ m.has_rules[rw] = h.has_rules[rw]
                      IN  Same(kern'.tg[FH(g, fd_id)],
                               kern'.tg[Members(kern', FH(g, fd_id))[i]])
                /\ \A t \in {FH(g, fd_id)} \cup
                             {Members(kern', FH(g, fd_id))[i] :
                                i \in 1..Len(Members(kern', FH(g, fd_id)))} :
                      /\ kern'.tg[t].bytes_disp[rw] = 0
                      /\ kern'.tg[t].io_disp[rw] = 0
                      /\ kern'.tg[t].slice_start[rw] = kern'.jiffies
                      /\ kern'.tg[t].slice_end[rw] = kern'.jiffies + throtl_slice]_vars

-----------------------------------------------------------------------------
(* the slice of direction d of throtl_grp t after tg_may_dispatch() has    *)
(* returned r in state K: renewed if it was used, at least throtl_slice    *)
(* long from now, and covering the wait on rejection                       *)
SliceCovers(K, r, t, d) ==
    /\ ~(K.tg[t].slice_start[d] <= K.jiffies /\ K.jiffies <= K.tg[t].slice_end[d])
         => /\ r.K.tg[t].slice_start[d] = K.jiffies
            /\ r.K.tg[t].bytes_disp[d] = 0
            /\ r.K.tg[t].io_disp[d] = 0
    /\ r.K.tg[t].slice_end[d] >= K.jiffies + throtl_slice
    /\ ~r.ok => r.K.tg[t].slice_end[d] >= K.jiffies + r.wait

(* C24: slice renewal in tg_may_dispatch covers both directions. Applied   *)
(* in any reachable state to a throtl_grp with a finite bps or iops limit  *)
(* in the bio's direction rw or in RANDW, tg_may_dispatch() leaves, for    *)
(* each d of rw and RANDW, a renewed slice (slice_start = now, counters 0) *)
(* if now was outside the slice of d, slice_end[d] >= now + throtl_slice   *)
(* in either case, and slice_end[d] >= now + wait when it rejects.         *)
C24_RenewsBothDirections ==
    \A t \in TGs, rw \in Dirs2, size \in BioSizes :
       (/\ Alive(kern) /\ kern.tg[t].exists
        /\ \E d \in {rw, RANDW} :
              kern.tg[t].bps[d] # NoLimit \/ kern.tg[t].iops[d] # NoLimit) =>
          LET Covers(r) == \A d \in {rw, RANDW} : SliceCovers(kern, r, t, d)
          IN  Covers(tg_may_dispatch(kern, t, rw, size))

-----------------------------------------------------------------------------
(* the waits of the component limits of throtl_grp record T for a bio of   *)
(* direction rw: bps and iops of rw and of RANDW, the finite ones          *)
ComponentWaits(T, rw, size, now) ==
    {BpsWait(T, d, size, now) : d \in {x \in {rw, RANDW} : T.bps[x] # NoLimit}}
      \cup {IopsWait(T, d, now) : d \in {x \in {rw, RANDW} : T.iops[x] # NoLimit}}

(* C25: wait composition is a maximum. Applied in any reachable state,     *)
(* tg_may_dispatch() accepts the bio exactly when it is within every       *)
(* finite one of the four limits (bps and iops of the bio's direction and  *)
(* of RANDW), and when it rejects, the wait it reports is the greatest of  *)
(* the waits of the limits the bio exceeds.                                *)
C25_WaitIsMaximum ==
    \A t \in TGs, rw \in Dirs2, size \in BioSizes :
       (Alive(kern) /\ kern.tg[t].exists) =>
          LET Composed(r, ws) ==
                /\ r.ok <=> (ws \subseteq {0})
                /\ ~r.ok => (r.wait \in ws /\ \A w \in ws : w <= r.wait)
              Called(r) ==
                Composed(r, ComponentWaits(r.K.tg[t], rw, size, kern.jiffies))
          IN  Called(tg_may_dispatch(kern, t, rw, size))

-----------------------------------------------------------------------------
(* throtl_grp record T has no limit that applies to a bio of direction rw *)
Unlimited(T, rw) ==
    /\ T.bps[rw] = NoLimit /\ T.iops[rw] = NoLimit
    /\ T.bps[RANDW] = NoLimit /\ T.iops[RANDW] = NoLimit

(* C26: the unlimited fast path changes nothing. Applied in any reachable  *)
(* state to a throtl_grp whose bps and iops of the bio's direction and of  *)
(* RANDW are all -1, tg_may_dispatch() returns true with wait 0 and leaves *)
(* slice_start, slice_end, bytes_disp and io_disp of every direction of    *)
(* the throtl_grp as they were.                                            *)
C26_UnlimitedFastPath ==
    \A t \in TGs, rw \in Dirs2, size \in BioSizes :
       (Alive(kern) /\ kern.tg[t].exists /\ Unlimited(kern.tg[t], rw)) =>
          LET Same(r) ==
                /\ r.ok /\ r.wait = 0
                /\ r.K.tg[t] = kern.tg[t]
          IN  Same(tg_may_dispatch(kern, t, rw, size))

(* blk_throtl_bio() has let a bio through a throtl_grp without limits and  *)
(* charged it there, and the slice of the bio's direction has run out      *)
C26_Witness ==
    \E t \in PGs, rw \in Dirs2 :
       /\ kern.tg[t].exists /\ Unlimited(kern.tg[t], rw)
       /\ kern.tg[t].bytes_disp[rw] > 0
       /\ kern.jiffies > kern.tg[t].slice_end[rw]
       /\ \E b \in 1..nbio : kern.bio[b].st = "passed" /\ kern.bio[b].throttled = FALSE

-----------------------------------------------------------------------------
(* counter c of a bucket less what n slices of limit allow, not below 0;   *)
(* a limit of -1 is the greatest unsigned value and empties the bucket     *)
Trimmed(c, limit, n) ==
    IF limit = NoLimit THEN 0
    ELSE Max(0, c - (limit * throtl_slice * n) \div HZ)

(* throtl_trim_slice(t, dir) has taken K to K2 as the spec describes for n *)
(* completed slices                                                        *)
TrimsSlices(K, K2, t, dir, n) ==
    IF n = 0
    THEN /\ K2.tg[t].bytes_disp[dir] = K.tg[t].bytes_disp[dir]
         /\ K2.tg[t].io_disp[dir] = K.tg[t].io_disp[dir]
         /\ K2.tg[t].slice_start[dir] = K.tg[t].slice_start[dir]
    ELSE /\ K2.tg[t].bytes_disp[dir]
              = Trimmed(K.tg[t].bytes_disp[dir], K.tg[t].bps[dir], n)
         /\ K2.tg[t].io_disp[dir]
              = Trimmed(K.tg[t].io_disp[dir], K.tg[t].iops[dir], n)
         /\ K2.tg[t].slice_start[dir] = K.tg[t].slice_start[dir] + n * throtl_slice

(* throtl_trim_slice() can be applied to direction dir of throtl_grp t:    *)
(* now is inside the slice                                                 *)
InSlice(K, t, dir) ==
    /\ Alive(K) /\ K.tg[t].exists
    /\ K.tg[t].slice_start[dir] <= K.jiffies
    /\ K.jiffies <= K.tg[t].slice_end[dir]

-----------------------------------------------------------------------------
(* C28: slice bounds are ordered. In every reachable state, for every      *)
(* throtl_grp (physical, fake-device header, fake-device member) and each  *)
(* of READ, WRITE and RANDW, slice_end is not before slice_start, and the  *)
(* BUG_ON at the top of throtl_trim_slice() has not fired.                 *)
C28_SliceBoundsOrdered ==
    /\ kern.oops # "bug_on"
    /\ \A t \in TGs, rw \in Dirs3 :
          kern.tg[t].slice_start[rw] <= kern.tg[t].slice_end[rw]

-----------------------------------------------------------------------------
(* C29: a throttled bio is seen only once. blk_throtl_bio() applied to a   *)
(* bio that carries the throttled marker returns false and changes no      *)
(* throtl_grp, service queue, list, qnode or device counter: the bio is    *)
(* neither charged nor queued and no slice moves; and over its lifetime no *)
(* bio has been charged twice to the same throtl_grp.                      *)
C29_SeenOnlyOnce ==
    /\ \A b \in 1..nbio, ub \in UbValues :
          (Alive(kern) /\ kern.bio[b].throttled) =>
             LET Through(r) ==
                   /\ ~r.ret
                   /\ r.K.tg = kern.tg /\ r.K.sq = kern.sq /\ r.K.td = kern.td
                   /\ r.K.ln = kern.ln /\ r.K.qb = kern.qb
                   /\ r.K.bio[b].charged = kern.bio[b].charged
             IN  Through(blk_throtl_bio(kern, b, ub))
    /\ kern.recharged = {}

-----------------------------------------------------------------------------
(* the dispatch times of the throtl_grps in the pending_tree of s, and the *)
(* earliest of them (the cached first_pending_disptime of an empty tree)   *)
PendingDisptimes(K, s) ==
    {K.tg[K.sq[s].tree[i]].disptime : i \in 1..Len(K.sq[s].tree)}

FirstPendingDisptime(K, s) ==
    IF K.sq[s].tree = <<>> THEN K.sq[s].first_pending_disptime
    ELSE CHOOSE d \in PendingDisptimes(K, s) :
                \A e \in PendingDisptimes(K, s) : d <= e

(* C30: result of throtl_schedule_next_dispatch(sq, force). Applied in any *)
(* reachable state to any service queue, it returns true when nr_pending   *)
(* is 0; with nr_pending > 0 it returns true when force is set or the      *)
(* first pending disptime is after jiffies, and false exactly when force   *)
(* is not set and the first pending disptime is not in the future.         *)
C30_ScheduleResult ==
    \A s \in SQs, force \in BOOLEAN :
       Alive(kern) =>
          LET Done(r) ==
                IF kern.sq[s].nr_pending = 0 THEN r.ret
                ELSE r.ret <=> (force \/ FirstPendingDisptime(kern, s) > kern.jiffies)
          IN  Done(throtl_schedule_next_dispatch(kern, s, force))

(* a service queue whose first pending throtl_grp is due: the unforced     *)
(* call tells the caller to go on dispatching, the forced one does not     *)
C30_Witness ==
    \E s \in SQs :
       /\ Alive(kern)
       /\ kern.sq[s].nr_pending > 0
       /\ FirstPendingDisptime(kern, s) <= kern.jiffies
       /\ ~throtl_schedule_next_dispatch(kern, s, FALSE).ret
       /\ throtl_schedule_next_dispatch(kern, s, TRUE).ret

-----------------------------------------------------------------------------
(* the pending_timer of s armed to expire at the first pending disptime    *)
ArmedAtFirst(K0, K, s) ==
    K.sq[s].timer = [armed |-> TRUE, expires |-> FirstPendingDisptime(K0, s)]

(* C31: throtl_schedule_next_dispatch arms the timer. Called on a service  *)
(* queue with nr_pending > 0, it leaves pending_timer armed to expire at   *)
(* first_pending_disptime, the least disptime of the pending throtl_grps,  *)
(* for either value of force and whether or not that time is in the        *)
(* future.                                                                 *)
C31_AlwaysArms ==
    \A s \in SQs, force \in BOOLEAN :
       (Alive(kern) /\ kern.sq[s].nr_pending > 0) =>
          ArmedAtFirst(kern, throtl_schedule_next_dispatch(kern, s, force).K, s)

(* C31 as the code has it: the timer is armed at first_pending_disptime    *)
(* when force is set or that time is after jiffies; otherwise the call     *)
(* leaves the timer as it was.                                             *)
C31_ArmsWhenDone ==
    \A s \in SQs, force \in BOOLEAN :
       (Alive(kern) /\ kern.sq[s].nr_pending > 0) =>
          LET Armed(r) ==
                IF force \/ FirstPendingDisptime(kern, s) > kern.jiffies
                THEN ArmedAtFirst(kern, r.K, s)
                ELSE r.K.sq[s].timer = kern.sq[s].timer
          IN  Armed(throtl_schedule_next_dispatch(kern, s, force))

(* a service queue whose first pending throtl_grp is due and whose timer   *)
(* is not armed for that time: the forced call arms it for a time that is  *)
(* not in the future, the unforced call leaves it alone                    *)
C31_Witness ==
    \E s \in SQs :
       /\ Alive(kern)
       /\ kern.sq[s].nr_pending > 0
       /\ FirstPendingDisptime(kern, s) <= kern.jiffies
       /\ ~ArmedAtFirst(kern, kern, s)
       /\ ArmedAtFirst(kern, throtl_schedule_next_dispatch(kern, s, TRUE).K, s)
       /\ ~ArmedAtFirst(kern, throtl_schedule_next_dispatch(kern, s, FALSE).K, s)

-----------------------------------------------------------------------------
(* throtl_grp t waits in the pending_tree of its parent service queue and  *)
(* the parent's pending_timer is armed to expire no later than t's         *)
(* disptime                                                                *)
PendingWithTimer(K, t) ==
    /\ "PENDING" \in K.tg[t].flags
    /\ K.sq[t].parent_sq \in SQs
    /\ t \in LinkedIn(K, K.sq[t].parent_sq)
    /\ K.sq[K.sq[t].parent_sq].timer.armed
    /\ K.sq[K.sq[t].parent_sq].timer.expires <= K.tg[t].disptime

(* C32: timer armed after throttling. When blk_throtl_bio() returns true   *)
(* having queued the bio on a throtl_grp t, then on return t is PENDING in *)
(* the pending_tree of its parent service queue and that queue's           *)
(* pending_timer is armed to expire no later than t's disptime.            *)
C32_TimerArmedAfterThrottling ==
    [][(nbio' = nbio + 1 /\ Alive(kern') /\ kern'.bio[nbio'].st = "held") =>
          /\ QueuedAt(kern', nbio') \cap TGs # {}
          /\ \A t \in QueuedAt(kern', nbio') \cap TGs : PendingWithTimer(kern', t)]_vars

-----------------------------------------------------------------------------
(* the bios of direction rw that left the queued[rw] list of t from K0 to K *)
Dispatched(K0, K, t, rw) == K0.sq[t].nr_queued[rw] - K.sq[t].nr_queued[rw]

(* nothing more of direction rw can go from t: queued[rw] is empty or      *)
(* tg_may_dispatch() rejects its first bio                                 *)
DirStopped(K, t, rw) ==
    \/ list_empty(K, LHead(t, rw))
    \/ BadFirst(K, LHead(t, rw))
    \/ LET Rejects(b) == ~tg_may_dispatch(K, t, K.bio[b].dir, K.bio[b].size).ok
       IN  Rejects(throtl_peek_queued(K, LHead(t, rw)))

(* C33: per-throtl_grp round quantum. One call of throtl_dispatch_tg()     *)
(* dispatches at most 6 read bios and at most 2 write bios, 8 at most in   *)
(* all and as many as it returns; the reads are those the read loop takes  *)
(* from the state at entry, before any write; and a direction that took    *)
(* fewer than its share stopped because its queue was empty or             *)
(* tg_may_dispatch() rejected its first bio.                               *)
C33_RoundQuantum ==
    \A t \in TGs :
       (Alive(kern) /\ kern.tg[t].exists) =>
          LET Round(r) ==
                Alive(r.K) =>
                   /\ Dispatched(kern, r.K, t, READ) <= 6
                   /\ Dispatched(kern, r.K, t, WRITE) <= 2
                   /\ r.n = Dispatched(kern, r.K, t, READ)
                               + Dispatched(kern, r.K, t, WRITE)
                   /\ r.n <= 8
                   /\ Dispatched(kern, r.K, t, READ)
                         = DispatchDir(kern, t, READ, 0, 6).n
                   /\ Dispatched(kern, r.K, t, READ) < 6 => DirStopped(r.K, t, READ)
                   /\ Dispatched(kern, r.K, t, WRITE) < 2 => DirStopped(r.K, t, WRITE)
          IN  Round(throtl_dispatch_tg(kern, t))

(* a throtl_grp with more reads and more writes queued than one round      *)
(* takes, all of which tg_may_dispatch() accepts: the round takes 6 reads  *)
(* and 2 writes and leaves the rest                                        *)
C33_Witness ==
    \E t \in TGs :
       /\ Alive(kern) /\ kern.tg[t].exists
       /\ LET Full(r) ==
                /\ Alive(r.K)
                /\ r.n = 8
                /\ Dispatched(kern, r.K, t, READ) = 6
                /\ Dispatched(kern, r.K, t, WRITE) = 2
                /\ ~DirStopped(r.K, t, READ)
                /\ ~DirStopped(r.K, t, WRITE)
          IN  Full(throtl_dispatch_tg(kern, t))

-----------------------------------------------------------------------------
(* no throtl_grp in the pending_tree of s is due *)
NoneDue(K, s) ==
    \A i \in 1..Len(K.sq[s].tree) : K.jiffies < K.tg[K.sq[s].tree[i]].disptime

-----------------------------------------------------------------------------
(* the place of throtl_grp t in the pending_tree of s, 0 when it is not in *)
(* it                                                                      *)
TreePlace(K, s, t) ==
    IF \E i \in 1..Len(K.sq[s].tree) : K.sq[s].tree[i] = t
    THEN CHOOSE i \in 1..Len(K.sq[s].tree) : K.sq[s].tree[i] = t
    ELSE 0

(* t has bios queued *)
HasQueued(K, t) == K.sq[t].nr_queued[READ] + K.sq[t].nr_queued[WRITE] > 0

(* C35: selection order. The pending_tree of a service queue is ordered by *)
(* disptime, and a throtl_grp enqueued into it, with whatever disptime,    *)
(* comes behind those with a smaller or equal disptime and before those    *)
(* with a greater one, so that throtl_rb_first() yields the pending        *)
(* throtl_grp with the least disptime and, among equals, the one enqueued  *)
(* first. One call of throtl_select_dispatch() leaves alone the            *)
(* throtl_grps whose disptime is after jiffies, and unless it stopped at   *)
(* the quantum it has serviced every throtl_grp that was due: each of them *)
(* is back in the tree, with a disptime after jiffies, if and only if it   *)
(* still has bios queued.                                                  *)
C35_SelectionOrder ==
    \A s \in SQs :
       Alive(kern) =>
          /\ \A i, j \in 1..Len(kern.sq[s].tree) :
                i < j => kern.tg[kern.sq[s].tree[i]].disptime
                            <= kern.tg[kern.sq[s].tree[j]].disptime
          /\ kern.sq[s].nr_pending > 0 /\ kern.sq[s].tree # <<>>
                => throtl_rb_first(kern, s).tg = Head(kern.sq[s].tree)
          /\ \A t \in TGs, d \in PendingDisptimes(kern, s) \cup {kern.jiffies} :
                (kern.tg[t].exists /\ kern.sq[t].parent_sq = s) =>
                   LET Placed(K) ==
                         Alive(K) =>
                            /\ TreePlace(K, s, t) > 0
                            /\ \A i \in 1..Len(K.sq[s].tree) :
                                  IF i < TreePlace(K, s, t)
                                  THEN K.tg[K.sq[s].tree[i]].disptime <= K.tg[t].disptime
                                  ELSE i > TreePlace(K, s, t)
                                         => K.tg[K.sq[s].tree[i]].disptime
                                               > K.tg[t].disptime
                   IN  Placed(SetDisptime(kern, t, d))
          /\ LET Selected(r) ==
                   Alive(r.K) =>
                      \A t \in LinkedIn(kern, s) :
                         IF kern.tg[t].disptime > kern.jiffies
                         THEN /\ r.K.tg[t] = kern.tg[t]
                              /\ r.K.sq[t] = kern.sq[t]
                              /\ t \in LinkedIn(r.K, s)
                         ELSE r.n < throtl_quantum =>
                                 /\ t \in LinkedIn(r.K, s) <=> HasQueued(r.K, t)
                                 /\ t \in LinkedIn(r.K, s)
                                       => r.K.tg[t].disptime > r.K.jiffies
             IN  Selected(throtl_select_dispatch(kern, s))

(* two throtl_grps with the same disptime wait in one pending_tree, both   *)
(* due, and a third with that disptime would be enqueued behind them; the  *)
(* call services both                                                      *)
C35_Witness ==
    \E s \in SQs :
       /\ Alive(kern)
       /\ Len(kern.sq[s].tree) = 2
       /\ kern.tg[kern.sq[s].tree[1]].disptime = kern.tg[kern.sq[s].tree[2]].disptime
       /\ kern.tg[kern.sq[s].tree[1]].disptime <= kern.jiffies
       /\ LET Both(r) == Alive(r.K) /\ r.n >= 2 /\ LinkedIn(r.K, s) = {}
          IN  Both(throtl_select_dispatch(kern, s))

-----------------------------------------------------------------------------
(* the qnodes of throtl_grp t that are linked into some queued[] list *)
LinkedQnodesOf(K, t) == {qn \in LinkedQnodes(K) : qn[1] = t}

(* C36: qnode reference balance. In every reachable state the references  *)
(* held on the blkg of a throtl_grp on behalf of its qnodes are as many as *)
(* its qnodes linked into queued[] lists; a fake-device throtl_grp, header *)
(* or member, holds none; so once every queued bio has been issued every   *)
(* count is back at its baseline.                                          *)
C36_QnodeReferences ==
    \A t \in TGs :
       Alive(kern) =>
          kern.tg[t].ref = IF kern.tg[t].fake THEN 0
                           ELSE Cardinality(LinkedQnodesOf(kern, t))

-----------------------------------------------------------------------------
(* C37: PENDING matches queue occupancy. In every reachable state (the     *)
(* actions are whole operations, so the queue lock is not held in any of   *)
(* them) a throtl_grp that bios are queued on, of a blkg or a member of a  *)
(* fake device, is PENDING if and only if it has a bio queued,             *)
(* nr_queued[READ] + nr_queued[WRITE] > 0: one that a dispatch round has   *)
(* emptied is in no pending tree, and one with bios queued is in the       *)
(* pending tree of its parent.                                             *)
C37_PendingIffQueued ==
    \A t \in PGs \cup FMs :
       (Alive(kern) /\ kern.tg[t].exists) =>
          ("PENDING" \in kern.tg[t].flags <=> HasQueued(kern, t))

-----------------------------------------------------------------------------
(* the member throtl_grps of all fake devices of blkcg g *)
MembersOfGroup(K, g) ==
    UNION {{Members(K, FakeDevs(K, g)[i])[j] :
              j \in 1..Len(Members(K, FakeDevs(K, g)[i]))} :
           i \in 1..Len(FakeDevs(K, g))}

(* C38: a hybrid config write does not disturb queued work. A write to a   *)
(* hybrid throttle file of a group, made in any reachable state, leaves    *)
(* unchanged, for every member throtl_grp of every fake device of the      *)
(* group: the bios held in its qnodes, the linkage of those qnodes, its    *)
(* queued[] lists with the bios linked into them, and its membership in    *)
(* the pending tree of its parent.                                         *)
C38_HybridWriteKeepsQueued ==
    \A g \in FdGroups, q \in Queues, fd_id \in FdIds, rw \in Dirs2, v \in ConfValues :
       Alive(kern) =>
          LET Kept(K2) ==
                Alive(K2) =>
                   \A m \in MembersOfGroup(kern, g) :
                      /\ \A k \in {"self", "parent"}, d \in Dirs2 :
                            /\ K2.qb[QN(m, k, d)] = kern.qb[QN(m, k, d)]
                            /\ K2.ln[QN(m, k, d)] = kern.ln[QN(m, k, d)]
                      /\ \A d \in Dirs2 :
                            /\ K2.ln[LHead(m, d)] = kern.ln[LHead(m, d)]
                            /\ QueuedBios(K2, LHead(m, d))
                                  = QueuedBios(kern, LHead(m, d))
                      /\ m \in LinkedIn(K2, kern.sq[m].parent_sq)
                            <=> m \in LinkedIn(kern, kern.sq[m].parent_sq)
          IN  Kept(tg_fd_set_conf(kern, g, q, fd_id, rw, v))

-----------------------------------------------------------------------------
(* the bios of direction rw submitted to queue q that are held in a qnode  *)
(* linked into a queued[] list of a throtl_grp, physical or fake, and so   *)
(* below the root service queue of the device                              *)
HeldBelowRoot(K, q, rw) ==
    {b \in DOMAIN K.bio :
        /\ K.bio[b].q = q
        /\ K.bio[b].dir = rw
        /\ \E t \in TGs, d \in Dirs2 :
              \E p \in QueuedBios(K, LHead(t, d)) : K.qb[p[1]][p[2]] = b}

(* C39: device queued counter. In every reachable state td.nr_queued[dir]  *)
(* of a device is the number of bios of that direction throttled on the    *)
(* device and still held in the queues of throtl_grps below its root, and  *)
(* BUG_ON(td->nr_queued[rw] <= 0) of tg_dispatch_one_bio() never fires, in *)
(* the timer's dispatch and in the drain, for physical throtl_grps and for *)
(* the members of fake devices.                                            *)
C39_DeviceQueuedCounter ==
    /\ kern.oops # "bug_on_queued"
    /\ Alive(kern) =>
          \A q \in Queues, rw \in Dirs2 :
             kern.td[q].nr_queued[rw] = Cardinality(HeldBelowRoot(kern, q, rw))

-----------------------------------------------------------------------------
(* the state of the fake devices: their throtl_grps, service queues, list  *)
(* heads and qnodes                                                        *)
FakeState(K) ==
    [tg |-> [t \in FHs \cup FMs |-> K.tg[t]],
     sq |-> [t \in FHs \cup FMs |-> K.sq[t]],
     ln |-> [n \in {x \in Nodes : x[1] \in FHs \cup FMs} |-> K.ln[n]],
     qb |-> [n \in {x \in QNs : x[1] \in FHs \cup FMs} |-> K.qb[n]]]

(* C40: no fake device, no fake-device stage. When blk_throtl_bio(), in    *)
(* any reachable state and for any bio, gets no throtl_grp from            *)
(* throtl_lookup_create_tg() (the queue is dying) or the cgroup of the bio *)
(* owns no fake device, it returns without a fault and without a change to *)
(* the state of any fake device, a bio it keeps is queued on a throtl_grp  *)
(* of a blkg, and without a throtl_grp it returns false.                   *)
C40_NoFakeDeviceStage ==
    \A g \in Groups, q \in DevQueues, rw \in Dirs2, size \in BioSizes,
       ub \in UbValues :
       (/\ Alive(kern)
        /\ nbio < MaxBios
        /\ \/ throtl_lookup_create_tg(kern, g, q).tg = NULL
           \/ FakeDevs(kern, g) = <<>>)
          => LET Done(r) ==
                   /\ Alive(r.K)
                   /\ FakeState(r.K) = FakeState(kern)
                   /\ r.ret => \E t \in PGs, d \in Dirs2 :
                                  \E pl \in QueuedBios(r.K, LHead(t, d)) :
                                     r.K.qb[pl[1]][pl[2]] = nbio + 1
                   /\ throtl_lookup_create_tg(kern, g, q).tg = NULL => ~r.ret
             IN  Done(blk_throtl_bio(
                        [kern EXCEPT !.bio[nbio + 1] =
                           [NewBio EXCEPT !.dir = rw, !.size = size,
                                          !.blkcg = g, !.q = q]],
                        nbio + 1, ub))

====
